---- MODULE Spec2Model ----
(***************************************************************************)
(* Model of the data-curation pipeline of the price-predictor notebooks:   *)
(* the Item class (text cleaning, length filters, prompt construction),    *)
(* the ItemLoader (price parsing, chunking, process-pool map), the cells   *)
(* that bucket, sample, shuffle and split the items, and the Tester class  *)
(* that evaluates a predictor.                                             *)
(*                                                                         *)
(* Text is a sequence of one-character strings.  The length thresholds of  *)
(* the notebook (MIN_CHARS = 300, MIN_TOKENS = 150, MAX_TOKENS = 160,      *)
(* CHUNK_SIZE = 1000) are kept by name and by their order relations but    *)
(* are scaled down, so that every input text around each threshold can be  *)
(* enumerated; PREFIX, QUESTION, REMOVALS, the scrub rules and the price   *)
(* bounds are the literal values of the source.                            *)
(***************************************************************************)
EXTENDS Integers, Sequences, FiniteSets, TLC

VARIABLES
    sx,         \* SpecScrub: the text given to Item.scrub
    s1,         \* SpecScrub: scrub(sx)
    s2,         \* SpecScrub: scrub(scrub(sx))
    spc,        \* SpecScrub: position: "in", "once", "twice"
    data,       \* SpecItem: the raw record given to Item(data, price)
    price,      \* SpecItem: the validated price given to Item(data, price)
    item,       \* SpecItem: the constructed Item, NoneObject before construction
    tp,         \* SpecItem: the value returned by item.test_prompt()
    ipc,        \* SpecItem: position: "raw", "built", "tested", "raised"
    iexc,       \* SpecItem: the exception Item(data, price) raised, NoException if none
    dataset,    \* SpecLoad: the raw dataset of the loader, a sequence of datapoints
    workers,    \* SpecLoad: max_workers of the process pool
    chunks,     \* SpecLoad: the chunks submitted to the pool, in submission order
    cstate,     \* SpecLoad: per chunk: "queued", "running" or "done"
    cresult,    \* SpecLoad: per finished chunk: the outcome of from_chunk
    outcomes,   \* SpecLoad: per processed row: the outcome of from_datapoint
    completed,  \* SpecLoad: the chunks in the order their workers finished
    yielded,    \* SpecLoad: the chunks whose batch the map iterator has handed over
    results,    \* SpecLoad: the local list results of load_in_parallel
    returned,   \* SpecLoad: the list load_in_parallel returned, <<>> before
    chunk_count, \* SpecLoad: the total given to the progress bar, 0 before
    lpc,        \* SpecLoad: position: "start", "mapping", "stamped", "returned", "aborted"
    items,      \* SpecCurate: the list items = ItemLoader(...).load(...)
    slots,      \* SpecCurate: the dict slots: rounded price -> list of items
    sample,     \* SpecCurate: the list sample
    train,      \* SpecCurate: the list train
    test,       \* SpecCurate: the list test
    rng40,      \* SpecCurate: the permutation random.shuffle applies after random.seed(40)
    splits,     \* SpecCurate: the (train, test) pair of every execution of the split cell
    train_dataset, \* SpecCurate: the records of the persisted train partition
    test_dataset,  \* SpecCurate: the records of the persisted test partition
    documents,  \* SpecCurate: the texts the baseline regressors are fitted on
    cpc,        \* SpecCurate: position: "raw", "loaded", "bucketed", "sampled", "split"
    predictor,  \* SpecTester: the guess of the predictor for every datapoint
    tdata,      \* SpecTester: Tester.data, the true price of every datapoint
    tsize,      \* SpecTester: Tester.size
    guesses,    \* SpecTester: Tester.guesses
    truths,     \* SpecTester: Tester.truths
    errors,     \* SpecTester: Tester.errors
    sles,       \* SpecTester: Tester.sles
    colors,     \* SpecTester: Tester.colors
    ti,         \* SpecTester: the loop variable i of Tester.run
    evaluated,  \* SpecTester: the datapoints given to the predictor, per run
    raised,     \* SpecTester: the exception each run ended with, NoException if none
    reports,    \* SpecTester: the report of every run that reached Tester.report
    tpc,        \* SpecTester: position: "created", "running", "reported", "aborted"
    pfn,        \* SpecPredict: the name of the predictor the Tester calls
    preply,     \* SpecPredict: the reply of the frontier model, None for other predictors
    praw,       \* SpecPredict: the number the regressor or generator produced, if any
    pguess,     \* SpecPredict: guess of run_datapoint
    pexc,       \* SpecPredict: the exception run_datapoint ended with, NoException if none
    ppc,        \* SpecPredict: position: "ready", "returned", "scored", "raised"
    input_text, \* SpecDeploy: the text of the input box handed to predict_price
    generated,  \* SpecDeploy: the tokens generate() added to the prompt
    remote,     \* SpecDeploy: the outcome of pricer.price.remote(description)
    outputs,    \* SpecDeploy: what each click gave the output box, with the outcome it is for
    clicks,     \* SpecDeploy: number of clicks of the button
    dpc         \* SpecDeploy: position: "waiting", "clicked", "priced"

scrubVars == <<sx, s1, s2, spc>>
itemVars == <<data, price, item, tp, ipc, iexc>>
loadVars == <<chunk_count, dataset, workers, chunks, cstate, cresult, outcomes, completed,
              yielded, results, returned, lpc>>
curateVars ==
    <<items, slots, sample, train, test, rng40, splits, train_dataset, test_dataset,
      documents, cpc>>
testerVars == <<predictor, tdata, tsize, guesses, truths, errors, sles, colors, ti,
                evaluated, raised, reports, tpc>>
predictVars == <<pfn, preply, praw, pguess, pexc, ppc>>

deployVars == <<input_text, generated, remote, outputs, clicks, dpc>>

vars == <<sx, s1, s2, spc, data, price, item, tp, ipc, iexc, chunk_count, dataset, workers, chunks,
          cstate, cresult, outcomes, completed, yielded, results, returned, lpc,
          items, slots, sample, train, test, rng40, splits, train_dataset,
          test_dataset, documents, cpc,
          predictor, tdata, tsize, guesses, truths, errors, sles, colors, ti,
          evaluated, raised, reports, tpc,
          pfn, preply, praw, pguess, pexc, ppc,
          input_text, generated, remote, outputs, clicks, dpc>>

\* Python None where a str is expected: a text that no str equals.
None == <<"None">>

\* Python None where an object (an Item, a float) is expected.
NoneObject == [none |-> TRUE]

\* The exception of a call that returned normally.
NoException == "NoException"

\* The value of a key that the record (datapoint) does not have.
Missing == <<"Missing">>

(***************************************************************************)
(* Python str and re primitives used by the Item class.                    *)
(***************************************************************************)

\* The two lenticular brackets of the scrub pattern, as one-character
\* stand-ins (the module is ASCII).
LBRACKET == "U+3010"
RBRACKET == "U+3011"

\* Characters matched by \s in a Python str pattern (the ASCII ones).
Whitespace == {" ", "\n", "\t", "\r", "\f"}

\* The character class [:\[\]"{}<U+3010><U+3011>\s] of Item.scrub.
ScrubClass == {":", "[", "]", "\"", "{", "}", LBRACKET, RBRACKET} \cup Whitespace

Digits == <<"0", "1", "2", "3", "4", "5", "6", "7", "8", "9">>
DigitSet == {Digits[i] : i \in 1..10}

\* str.isdigit on one character (ASCII digits).
IsDigit(c) == c \in DigitSet

\* Value of a text of decimal digits.
RECURSIVE DigitsValue(_)
DigitsValue(s) ==
    IF s = <<>> THEN 0
    ELSE 10 * DigitsValue(SubSeq(s, 1, Len(s) - 1))
         + (CHOOSE k \in 0..9 : Digits[k + 1] = s[Len(s)])

\* s[n:] of Python, n >= 0.
Drop(s, n) == SubSeq(s, n + 1, Len(s))

\* s[:n] of Python, n >= 0.
Take(s, n) == SubSeq(s, 1, IF n < Len(s) THEN n ELSE Len(s))

StartsWith(s, p) == Len(p) <= Len(s) /\ SubSeq(s, 1, Len(p)) = p

\* str.replace(old, new): left to right, non-overlapping occurrences.
RECURSIVE Replace(_, _, _)
Replace(s, old, new) ==
    IF Len(s) < Len(old) THEN s
    ELSE IF StartsWith(s, old) THEN new \o Replace(Drop(s, Len(old)), old, new)
    ELSE <<s[1]>> \o Replace(Tail(s), old, new)

\* Number of leading characters of s that are in class.
RECURSIVE RunLen(_, _)
RunLen(s, class) ==
    IF s = <<>> \/ s[1] \notin class THEN 0 ELSE 1 + RunLen(Tail(s), class)

\* re.sub(r'[class]+', ' ', s): every maximal run of class characters
\* becomes one space.
RECURSIVE ReSubRuns(_, _)
ReSubRuns(s, class) ==
    IF s = <<>> THEN <<>>
    ELSE IF s[1] \in class THEN <<" ">> \o ReSubRuns(Drop(s, RunLen(s, class)), class)
    ELSE <<s[1]>> \o ReSubRuns(Tail(s), class)

RECURSIVE LStrip(_)
LStrip(s) == IF s # <<>> /\ s[1] \in Whitespace THEN LStrip(Tail(s)) ELSE s

RECURSIVE RStrip(_)
RStrip(s) ==
    IF s # <<>> /\ s[Len(s)] \in Whitespace THEN RStrip(SubSeq(s, 1, Len(s) - 1)) ELSE s

\* str.strip()
Strip(s) == RStrip(LStrip(s))

\* Index of the first occurrence of the character c in s, or 0.
FirstIndex(s, c) ==
    IF \E i \in 1..Len(s) : s[i] = c
    THEN CHOOSE i \in 1..Len(s) : s[i] = c /\ \A j \in 1..(i - 1) : s[j] # c
    ELSE 0

\* str.split(' '): the list of words between single spaces, empty words kept.
RECURSIVE SplitSpace(_)
SplitSpace(s) ==
    LET i == FirstIndex(s, " ")
    IN  IF i = 0 THEN <<s>>
        ELSE <<SubSeq(s, 1, i - 1)>> \o SplitSpace(Drop(s, i))

\* sep.join(words)
RECURSIVE Join(_, _)
Join(sep, words) ==
    IF words = <<>> THEN <<>>
    ELSE IF Len(words) = 1 THEN words[1]
    ELSE words[1] \o sep \o Join(sep, Tail(words))

(***************************************************************************)
(* Item.scrub                                                              *)
(***************************************************************************)

\* The comma clean-up chain of scrub.
CommaFix(stuff) ==
    Replace(Replace(Replace(stuff, <<" ", ",">>, <<",">>),
                    <<",", ",", ",">>, <<",">>),
            <<",", ",">>, <<",">>)

\* The word filter of scrub: a word survives when it is shorter than 7
\* characters or holds no digit.
KeepWord(word) == Len(word) < 7 \/ ~ \E i \in 1..Len(word) : IsDigit(word[i])

scrub(stuff) ==
    LET collapsed == Strip(ReSubRuns(stuff, ScrubClass))
        fixed     == CommaFix(collapsed)
        words     == SplitSpace(fixed)
        select    == SelectSeq(words, KeepWord)
    IN  Join(<<" ">>, select)

(***************************************************************************)
(* Prices.  A price is the exact decimal value num / den, den a power of   *)
(* ten (the float of the source, at the precision of its decimal text).    *)
(***************************************************************************)

Dec(num, den) == [num |-> num, den |-> den]

\* a <= b for decimals
DecLeq(a, b) == a.num * b.den <= b.num * a.den

Abs(x) == IF x < 0 THEN -x ELSE x

\* int(x) in place of round(x): the fraction is dropped.
round_truncate(x) == x.num \div x.den

\* Python round(x) of a float to an integer: nearest, ties to even.
round(x) ==
    LET q == x.num \div x.den
        r == x.num % x.den
    IN  IF 2 * r < x.den THEN q
        ELSE IF 2 * r > x.den THEN q + 1
        ELSE IF q % 2 = 0 THEN q ELSE q + 1

RECURSIVE Pow10(_)
Pow10(k) == IF k = 0 THEN 1 ELSE 10 * Pow10(k - 1)

\* The text has the shape digits[.digits] with at least one digit.
DecimalShape(t) ==
    /\ \A i \in 1..Len(t) : IsDigit(t[i]) \/ t[i] = "."
    /\ Cardinality({i \in 1..Len(t) : t[i] = "."}) <= 1
    /\ \E i \in 1..Len(t) : IsDigit(t[i])

\* Python float(text) on plain decimal text: surrounding whitespace and a
\* sign are accepted; anything else raises ValueError.  (Exponents, inf, nan
\* and digit-group underscores, which float also accepts, are not in any
\* price text the model draws.)
float(text) ==
    LET t      == Strip(text)
        signed == t # <<>> /\ t[1] \in {"+", "-"}
        body   == IF signed THEN Tail(t) ELSE t
        dot    == FirstIndex(body, ".")
        frac   == IF dot = 0 THEN 0 ELSE Len(body) - dot
        digs   == SelectSeq(body, IsDigit)
        sign   == IF signed /\ t[1] = "-" THEN -1 ELSE 1
    IN  IF DecimalShape(body)
        THEN [exc |-> NoException, value |-> Dec(sign * DigitsValue(digs), Pow10(frac))]
        ELSE [exc |-> "ValueError", value |-> NoneObject]

\* Python str(n) of an integer.
RECURSIVE str(_)
str(n) ==
    IF n < 0 THEN <<"-">> \o str(-n)
    ELSE IF n < 10 THEN <<Digits[n + 1]>>
    ELSE str(n \div 10) \o <<Digits[(n % 10) + 1]>>

(***************************************************************************)
(* The tokenizer (AutoTokenizer of the base model) is outside the          *)
(* repository.  It is modelled as a lossless word-piece tokenizer: a token *)
(* starts at the first character and at every whitespace character, so a   *)
(* token is a word together with the whitespace character before it.       *)
(***************************************************************************)

\* Length of the first token of a non-empty text.
FirstTokenLen(s) ==
    IF \E i \in 2..Len(s) : s[i] \in Whitespace
    THEN (CHOOSE i \in 2..Len(s) :
              s[i] \in Whitespace /\ \A j \in 2..(i - 1) : s[j] \notin Whitespace) - 1
    ELSE Len(s)

\* tokenizer.encode(text, add_special_tokens=False)
RECURSIVE encode(_)
encode(text) ==
    IF text = <<>> THEN <<>>
    ELSE LET n == FirstTokenLen(text)
         IN  <<SubSeq(text, 1, n)>> \o encode(Drop(text, n))

\* tokenizer.decode(tokens)
RECURSIVE decode(_)
decode(tokens) ==
    IF tokens = <<>> THEN <<>> ELSE tokens[1] \o decode(Tail(tokens))

(***************************************************************************)
(* The Item class.                                                         *)
(***************************************************************************)

\* Minimum number of tokens required to include an item (150 in the
\* notebook, scaled).
MIN_TOKENS == 4

\* Token cutoff before truncating (160 in the notebook, scaled).
MAX_TOKENS == 6

\* Minimum character length for raw product content (300 in the notebook,
\* scaled).
MIN_CHARS == 12

CEILING_CHARS == MAX_TOKENS * 7

PREFIX == <<"P", "r", "i", "c", "e", " ", "i", "s", " ", "$">>

QUESTION ==
    <<"H", "o", "w", " ", "m", "u", "c", "h", " ", "d", "o", "e", "s", " ",
      "t", "h", "i", "s", " ", "c", "o", "s", "t", " ", "t", "o", " ",
      "t", "h", "e", " ", "n", "e", "a", "r", "e", "s", "t", " ",
      "d", "o", "l", "l", "a", "r", "?">>

REMOVALS ==
    << <<"\"", "B", "a", "t", "t", "e", "r", "i", "e", "s", " ", "I", "n", "c", "l", "u", "d", "e", "d", "?", "\"", ":", " ", "\"", "N", "o", "\"">>,
       <<"\"", "B", "a", "t", "t", "e", "r", "i", "e", "s", " ", "I", "n", "c", "l", "u", "d", "e", "d", "?", "\"", ":", " ", "\"", "Y", "e", "s", "\"">>,
       <<"\"", "B", "a", "t", "t", "e", "r", "i", "e", "s", " ", "R", "e", "q", "u", "i", "r", "e", "d", "?", "\"", ":", " ", "\"", "N", "o", "\"">>,
       <<"\"", "B", "a", "t", "t", "e", "r", "i", "e", "s", " ", "R", "e", "q", "u", "i", "r", "e", "d", "?", "\"", ":", " ", "\"", "Y", "e", "s", "\"">>,
       <<"B", "y", " ", "M", "a", "n", "u", "f", "a", "c", "t", "u", "r", "e", "r">>,
       <<"I", "t", "e", "m">>,
       <<"D", "a", "t", "e", " ", "F", "i", "r", "s", "t">>,
       <<"P", "a", "c", "k", "a", "g", "e">>,
       <<":">>,
       <<"N", "u", "m", "b", "e", "r", " ", "o", "f">>,
       <<"B", "e", "s", "t", " ", "S", "e", "l", "l", "e", "r", "s">>,
       <<"N", "u", "m", "b", "e", "r">>,
       <<"P", "r", "o", "d", "u", "c", "t", " ">> >>

\* Truth value of a str-or-None in an if statement.
Truthy(x) == x # None /\ x # <<>>

\* The class-level defaults and the two assignments of Item.__init__
\* before parse runs; category is not assigned at construction.
ItemDefaults(d, p) ==
    [title       |-> d.title,
     price       |-> p,
     details     |-> None,
     prompt      |-> None,
     token_count |-> 0,
     include     |-> FALSE,
     category    |-> None]

\* The loop of Item.scrub_details over REMOVALS[k..].
RECURSIVE RemoveAll(_, _)
RemoveAll(details, k) ==
    IF k > Len(REMOVALS) THEN details
    ELSE RemoveAll(Replace(details, REMOVALS[k], <<>>), k + 1)

scrub_details(details) == RemoveAll(details, 1)

\* The composition of the product text at the head of Item.parse.
Contents(d) ==
    LET desc  == Join(<<"\n">>, d.description)
        c1    == IF desc # <<>> THEN desc \o <<"\n">> ELSE desc
        feats == Join(<<"\n">>, d.features)
        c2    == IF feats # <<>> THEN c1 \o feats \o <<"\n">> ELSE c1
    IN  IF Truthy(d.details) THEN c2 \o scrub_details(d.details) \o <<"\n">> ELSE c2

\* The character filter of Item.parse.
PassesChars(contents) == Len(contents) > MIN_CHARS

\* The token filter with >= in place of >.
PassesTokensInclusive(tokens) == Len(tokens) >= MIN_TOKENS

\* The token filter of Item.parse.
PassesTokens(tokens) == Len(tokens) > MIN_TOKENS

\* The text that Item.parse tokenizes.
ParseText(title, contents) ==
    scrub(title) \o <<"\n">> \o scrub(Take(contents, CEILING_CHARS))

\* The number written after PREFIX by Item.make_prompt.
PriceAnswer(p) == str(round(p)) \o <<".", "0", "0">>

\* Item.make_prompt with the prompt never stored on the item.
make_prompt_unstored(it, text) ==
    [it EXCEPT !.token_count =
        Len(encode(QUESTION \o <<"\n", "\n">> \o text \o <<"\n", "\n">>
                   \o PREFIX \o PriceAnswer(it.price)))]

\* Item.make_prompt counting the tokens before the price line is appended.
make_prompt_early_count(it, text) ==
    LET head == QUESTION \o <<"\n", "\n">> \o text \o <<"\n", "\n">>
    IN  [it EXCEPT !.prompt = head \o PREFIX \o PriceAnswer(it.price),
                   !.token_count = Len(encode(head))]

make_prompt(it, text) ==
    LET head   == QUESTION \o <<"\n", "\n">> \o text \o <<"\n", "\n">>
        prompt == head \o PREFIX \o PriceAnswer(it.price)
    IN  [it EXCEPT !.prompt = prompt,
                   !.token_count = Len(encode(prompt))]

parse(it, d) ==
    LET contents == Contents(d)
        withDet  == [it EXCEPT !.details = d.details]
    IN  IF PassesChars(contents)
        THEN LET tokens == encode(ParseText(it.title, contents))
             IN  IF PassesTokens(tokens)
                 THEN [make_prompt(withDet, decode(Take(tokens, MAX_TOKENS)))
                          EXCEPT !.include = TRUE]
                 ELSE withDet
        ELSE withDet

\* self.details = data['details'] raises KeyError for a record without the
\* key; nothing in Item catches it.
KeyErrors(d) == d.details = Missing

\* Item(data, price), for a record that has the key details.
NewItem(d, p) == parse(ItemDefaults(d, p), d)

\* Index of the first occurrence of sub in s, or 0.
Find(s, sub) ==
    LET hits == {i \in 1..(Len(s) - Len(sub) + 1) : SubSeq(s, i, i + Len(sub) - 1) = sub}
    IN  IF hits = {} THEN 0 ELSE CHOOSE i \in hits : \A j \in hits : i <= j

\* s.split(sep)[0]: the part of s before the first occurrence of sep.
SplitHead(s, sep) ==
    LET i == Find(s, sep) IN IF i = 0 THEN s ELSE SubSeq(s, 1, i - 1)

\* test_prompt handing back the prompt as it is.
test_prompt_whole(it) == it.prompt

test_prompt(it) == SplitHead(it.prompt, PREFIX) \o PREFIX

\* The key under which the sampling cell files an item: slots[round(item.price)].
SlotOf(it) == round(it.price)

(***************************************************************************)
(* SpecItem: Item(data, price) on every record of a small catalogue, then  *)
(* test_prompt() on the included ones.                                     *)
(***************************************************************************)

Titles ==
    {<<"M", "u", "g">>,
     <<"C", "u", "p", " ", "S", "K", "U", "1", "2", "3", "4", "5">>,
     <<"P", "r", "i", "c", "e", " ", "i", "s", " ", "$", "9", " ", "j", "a", "r">>}

Descriptions ==
    {<<>>,
     <<<<"b", "i", "g", " ", "r", "e", "d", " ", "m", "u", "g">>>>,
     <<<<"b", "i", "g", " ", "r", "e", "d", " ", "m", "u", "g", "s">>>>,
     <<<<"a", " ", "b", "i", "g", " ", "r", "e", "d", " ", "m", "u", "g">>>>,
     <<<<"a", " ", "b", "i", "g">>, <<"r", "e", "d", " ", "m", "u", "g">>>>,
     <<<<"e", "n", "o", "r", "m", "o", "u", "s", "-", "s", "i", "z", "e", "d", " ", "m", "u", "g", "s">>>>,
     <<<<"S", "a", "l", "e", " ", "P", "r", "i", "c", "e", " ", "i", "s", " ", "$", "7", " ", "f", "o", "r", " ", "o", "n", "e", " ", "b", "i", "g", " ", "m", "u", "g">>>>,
     <<<<"n", "o", "w", " ", "7", ".", "0", "0", " ", "o", "f", "f", ",", " ", ",", "e", "a", "c", "h", " ", "m", "u", "g", ",", ",", ",", ",", ",", " ", "o", "k">>>>}

FeatureLists ==
    {<<>>,
     <<<<"h", "o", "l", "d", "s", " ", "7", " ", "o", "z">>>>,
     <<<<"d", "i", "s", "h", "w", "a", "s", "h", "e", "r", " ", "s", "a", "f", "e">>, <<"m", "i", "c", "r", "o", "w", "a", "v", "e", " ", "s", "a", "f", "e", " ", "l", "i", "d">>>>}

DetailsValues ==
    {None,
     Missing,
     <<>>,
     <<"{", "\"", "I", "t", "e", "m", " ", "W", "e", "i", "g", "h", "t", "\"", ":", " ", "\"", "7", " ", "o", "z", "\"", "}">>,
     <<"{", "\"", "B", "a", "t", "t", "e", "r", "i", "e", "s", " ", "I", "n", "c", "l", "u", "d", "e", "d", "?", "\"", ":", " ", "\"", "N", "o", "\"", ",", " ", "\"", "P", "a", "c", "k", "a", "g", "e", "\"", ":", " ", "\"", "b", "o", "x", " ", "1", "2", "\"", "}">>}

\* Validated prices: 0.5, 1.5, 2.5, 7.0, 42.0, 42.6, 999.49
ValidPrices ==
    {Dec(5, 10), Dec(15, 10), Dec(25, 10), Dec(70, 10), Dec(420, 10),
     Dec(426, 10), Dec(99949, 100)}

RawRecords ==
    [title : Titles, description : Descriptions, features : FeatureLists,
     details : DetailsValues]

ScrubIdle == sx = None /\ s1 = None /\ s2 = None /\ spc = "idle"

ItemIdle ==
    /\ data = NoneObject /\ price = NoneObject /\ item = NoneObject /\ tp = None
    /\ ipc = "idle" /\ iexc = NoException

LoadIdle ==
    /\ chunk_count = 0
    /\ dataset = <<>>
    /\ workers = 0
    /\ chunks = <<>>
    /\ cstate = <<>>
    /\ cresult = <<>>
    /\ outcomes = <<>>
    /\ completed = <<>>
    /\ yielded = {}
    /\ results = <<>>
    /\ returned = <<>>
    /\ lpc = "idle"

CurateIdle ==
    /\ items = <<>>
    /\ slots = <<>>
    /\ sample = <<>>
    /\ train = <<>>
    /\ test = <<>>
    /\ rng40 = <<>>
    /\ splits = <<>>
    /\ train_dataset = <<>>
    /\ test_dataset = <<>>
    /\ documents = <<>>
    /\ cpc = "idle"

TesterIdle ==
    /\ predictor = <<>>
    /\ tdata = <<>>
    /\ tsize = 0
    /\ guesses = <<>>
    /\ truths = <<>>
    /\ errors = <<>>
    /\ sles = <<>>
    /\ colors = <<>>
    /\ ti = 0
    /\ evaluated = <<>>
    /\ raised = <<>>
    /\ reports = <<>>
    /\ tpc = "idle"

PredictIdle ==
    /\ pfn = ""
    /\ preply = None
    /\ praw = NoneObject
    /\ pguess = NoneObject
    /\ pexc = NoException
    /\ ppc = "idle"

DeployIdle ==
    /\ input_text = None
    /\ generated = <<>>
    /\ remote = NoneObject
    /\ outputs = <<>>
    /\ clicks = 0
    /\ dpc = "idle"

InitItem ==
    /\ PredictIdle
    /\ DeployIdle
    /\ ScrubIdle
    /\ LoadIdle
    /\ CurateIdle
    /\ TesterIdle
    /\ data \in RawRecords
    /\ price \in ValidPrices
    /\ item = NoneObject
    /\ tp = None
    /\ ipc = "raw"
    /\ iexc = NoException

\* Item(data, price): the constructed Item, or the KeyError of parse
\* leaving __init__.
Construct ==
    /\ ipc = "raw"
    /\ IF KeyErrors(data)
       THEN /\ iexc' = "KeyError"
            /\ ipc' = "raised"
            /\ UNCHANGED item
       ELSE /\ item' = NewItem(data, price)
            /\ ipc' = "built"
            /\ UNCHANGED iexc
    /\ UNCHANGED <<data, price, tp>>
    /\ UNCHANGED <<scrubVars, loadVars, curateVars, testerVars, predictVars, deployVars>>

TestPrompt ==
    /\ ipc = "built"
    /\ item.include
    /\ tp' = test_prompt(item)
    /\ ipc' = "tested"
    /\ UNCHANGED <<data, price, item, iexc>>
    /\ UNCHANGED <<scrubVars, loadVars, curateVars, testerVars, predictVars, deployVars>>

NextItem == Construct \/ TestPrompt

SpecItem == InitItem /\ [][NextItem]_vars

(***************************************************************************)
(* Properties of Item, checked under SpecItem.                             *)
(***************************************************************************)

Built == ipc \in {"built", "tested"}

EndsWith(s, suffix) ==
    Len(suffix) <= Len(s) /\ SubSeq(s, Len(s) - Len(suffix) + 1, Len(s)) = suffix

IsStrictPrefix(p, s) == Len(p) < Len(s) /\ SubSeq(s, 1, Len(p)) = p

Contains(s, sub) == Find(s, sub) # 0

\* Number of trailing decimal digits of s.
RECURSIVE TrailingDigits(_)
TrailingDigits(s) ==
    IF s # <<>> /\ IsDigit(s[Len(s)])
    THEN 1 + TrailingDigits(SubSeq(s, 1, Len(s) - 1))
    ELSE 0

\* The dollar amount read back from the end of a prompt "...<digits>.00".
WrittenAmount(prompt) ==
    LET body == SubSeq(prompt, 1, Len(prompt) - 3)
    IN  DigitsValue(Drop(body, Len(body) - TrailingDigits(body)))

\* Token count of the text Item.parse tokenizes for the record.
ParsedTokenCount == Len(encode(ParseText(data.title, Contents(data))))

\* C1: for every constructed item, prompt is set if and only if include is
\* true.
C1_PromptIffInclude == Built => ((item.prompt # None) <=> item.include)

C1_Witness == ipc = "built" /\ item.include /\ item.prompt # None

\* C2: inclusion is decided exactly by the two thresholds: a body of at most
\* MIN_CHARS characters gives include = false and no prompt; a longer body
\* whose text has at most MIN_TOKENS tokens gives include = false; every
\* other record gives include = true.
C2_InclusionThresholds ==
    Built =>
        /\ Len(Contents(data)) <= MIN_CHARS
              => ~item.include /\ item.prompt = None
        /\ Len(Contents(data)) > MIN_CHARS /\ ParsedTokenCount <= MIN_TOKENS
              => ~item.include
        /\ Len(Contents(data)) > MIN_CHARS /\ ParsedTokenCount > MIN_TOKENS
              => item.include

C2_Witness ==
    /\ ipc = "built"
    /\ Len(Contents(data)) > MIN_CHARS
    /\ ParsedTokenCount = MIN_TOKENS
    /\ ~item.include

\* C3: an included item's token_count is the token length of its prompt and
\* the prompt ends with PREFIX, the rounded price and ".00"; a non-included
\* item keeps token_count 0.
C3_TokenCountAndEnding ==
    Built =>
        IF item.include
        THEN /\ item.token_count = Len(encode(item.prompt))
             /\ EndsWith(item.prompt,
                         PREFIX \o str(round(item.price)) \o <<".", "0", "0">>)
        ELSE item.token_count = 0

C3_Witness ==
    /\ ipc = "built"
    /\ item.include
    /\ item.token_count > Len(encode(QUESTION))
    /\ EndsWith(item.prompt, PREFIX \o <<"4", "3", ".", "0", "0">>)

\* C4: the amount written at the end of the prompt is within 0.5 of the
\* price (42.0 gives 42, 42.6 gives 43) and is the slot the sampler files
\* the item under.
C4_WrittenAmountIsNearest ==
    Built /\ item.include =>
        LET n == WrittenAmount(item.prompt)
        IN  /\ 2 * Abs(n * item.price.den - item.price.num) <= item.price.den
            /\ n = SlotOf(item)
            /\ item.price = Dec(420, 10) => n = 42
            /\ item.price = Dec(426, 10) => n = 43

C4_Witness ==
    /\ ipc = "built"
    /\ item.include
    /\ item.price = Dec(25, 10)
    /\ WrittenAmount(item.prompt) = 2

\* C5 as stated: test_prompt() is a strict prefix of prompt and never
\* contains the numeric price value of the item.
C5_NeverContainsPrice ==
    ipc = "tested" =>
        /\ IsStrictPrefix(tp, item.prompt)
        /\ ~Contains(tp, PriceAnswer(item.price))

\* C5 amended: test_prompt() is a strict prefix of prompt, ends with PREFIX
\* and stops before the answer make_prompt appended; the product text in it
\* is not searched for the price.
C5_StrictPrefixBeforeAnswer ==
    ipc = "tested" =>
        /\ IsStrictPrefix(tp, item.prompt)
        /\ EndsWith(tp, PREFIX)
        /\ Len(tp) + Len(PriceAnswer(item.price)) <= Len(item.prompt)

C5_Witness ==
    /\ ipc = "tested"
    /\ Contains(tp, PriceAnswer(item.price))
    /\ IsStrictPrefix(tp, item.prompt)

\* C6: prompt is test_prompt() followed by the rounded price and ".00",
\* whatever the body text contains.
C6_PromptIsTestPromptPlusAnswer ==
    ipc = "tested" =>
        item.prompt = tp \o str(round(item.price)) \o <<".", "0", "0">>

\* C20: Item construction never raises on missing optional fields: with
\* details None or the key absent, or with an empty description or an
\* empty features list, it completes and the outcome shows only in include.
C20_NeverFailsOnMissingOptional ==
    /\ ipc # "raw"
    /\ \/ data.details \in {None, Missing}
       \/ data.description = <<>>
       \/ data.features = <<>>
    => /\ iexc = NoException
       /\ Built
       /\ item.include \in BOOLEAN

(***************************************************************************)
(* SpecScrub: scrub applied once and twice to every short text.            *)
(***************************************************************************)

\* Longest text given to scrub.
MaxScrubLen == 7

ScrubAlphabet == {",", " ", "a", "1"}

RECURSIVE TextsOfLen(_, _)
TextsOfLen(alphabet, n) ==
    IF n = 0 THEN {<<>>}
    ELSE {<<c>> \o t : c \in alphabet, t \in TextsOfLen(alphabet, n - 1)}

TextsUpTo(alphabet, n) == UNION {TextsOfLen(alphabet, k) : k \in 0..n}

InitScrub ==
    /\ PredictIdle
    /\ DeployIdle
    /\ sx \in TextsUpTo(ScrubAlphabet, MaxScrubLen)
    /\ s1 = None
    /\ s2 = None
    /\ spc = "in"
    /\ ItemIdle
    /\ LoadIdle
    /\ CurateIdle
    /\ TesterIdle

ScrubOnce ==
    /\ spc = "in"
    /\ s1' = scrub(sx)
    /\ spc' = "once"
    /\ UNCHANGED <<sx, s2>>
    /\ UNCHANGED <<itemVars, loadVars, curateVars, testerVars, predictVars, deployVars>>

ScrubTwice ==
    /\ spc = "once"
    /\ s2' = scrub(s1)
    /\ spc' = "twice"
    /\ UNCHANGED <<sx, s1>>
    /\ UNCHANGED <<itemVars, loadVars, curateVars, testerVars, predictVars, deployVars>>

NextScrub == ScrubOnce \/ ScrubTwice

SpecScrub == InitScrub /\ [][NextScrub]_vars

\* C7: scrub is idempotent: a second pass changes nothing.
C7_ScrubIdempotent == spc = "twice" => s2 = s1

(***************************************************************************)
(* The ItemLoader class.                                                   *)
(***************************************************************************)

\* Records per chunk (1000 in the notebook, scaled).
CHUNK_SIZE == 2

\* MIN_PRICE = 0.5
MIN_PRICE == Dec(5, 10)

\* MAX_PRICE = 999.49
MAX_PRICE == Dec(99949, 100)

\* The outcome of a call: the exception it raised (NoException when it
\* returned), the value it returned, and whether it constructed an Item.
Outcome(exc, ret, built) == [exc |-> exc, ret |-> ret, built |-> built]

\* An except clause that matches no exception of the try body.
CaughtNothing(exc) == FALSE

\* The except clause of from_datapoint: except ValueError.
Caught(exc) == exc = "ValueError"

\* The try body of from_datapoint without the range test on the price.
TryBody_unchecked(datapoint) ==
    IF datapoint.price = Missing THEN Outcome("KeyError", NoneObject, FALSE)
    ELSE IF ~Truthy(datapoint.price) THEN Outcome(NoException, NoneObject, FALSE)
    ELSE LET f == float(datapoint.price)
         IN  IF f.exc # NoException THEN Outcome(f.exc, NoneObject, FALSE)
             ELSE IF KeyErrors(datapoint) THEN Outcome("KeyError", NoneObject, TRUE)
             ELSE LET it == NewItem(datapoint, f.value)
                  IN  Outcome(NoException, IF it.include THEN it ELSE NoneObject, TRUE)

\* The try body of from_datapoint.
TryBody(datapoint) ==
    IF datapoint.price = Missing THEN Outcome("KeyError", NoneObject, FALSE)
    ELSE IF ~Truthy(datapoint.price) THEN Outcome(NoException, NoneObject, FALSE)
    ELSE LET f == float(datapoint.price)
         IN  IF f.exc # NoException THEN Outcome(f.exc, NoneObject, FALSE)
             ELSE IF DecLeq(MIN_PRICE, f.value) /\ DecLeq(f.value, MAX_PRICE)
             THEN IF KeyErrors(datapoint) THEN Outcome("KeyError", NoneObject, TRUE)
                  ELSE
                  LET it == NewItem(datapoint, f.value)
                  IN  Outcome(NoException, IF it.include THEN it ELSE NoneObject, TRUE)
             ELSE Outcome(NoException, NoneObject, FALSE)

from_datapoint(datapoint) ==
    LET out == TryBody(datapoint)
    IN  IF out.exc # NoException /\ Caught(out.exc)
        THEN Outcome(NoException, NoneObject, out.built)
        ELSE out

\* The one element of a one-element set.
Only(S) == CHOOSE x \in S : TRUE

\* The rest of one round of the loop of from_chunk, result being the value
\* from_datapoint returned for the row: the batch and the outcomes of the
\* rows chunk[k + 1..], given the batch so far and the outcomes so far.
RECURSIVE ChunkLoop(_, _, _, _, _)
LoopBody(ds, chunk, k, batch, outs, result) ==
    LET seen == Append(outs, [row |-> chunk[k], out |-> result])
    IN  IF result.exc # NoException
        THEN [exc |-> result.exc, batch |-> batch, outs |-> seen]
        ELSE IF result.ret # NoneObject
        THEN ChunkLoop(ds, chunk, k + 1,
                       Append(batch, [row |-> chunk[k], item |-> result.ret]), seen)
        ELSE ChunkLoop(ds, chunk, k + 1, batch, seen)

\* The loop of from_chunk over the rows chunk[k..] of the dataset ds: the
\* batch so far, and the from_datapoint outcome of every row it reached.  An
\* exception of from_datapoint ends the loop and the chunk.
ChunkLoop(ds, chunk, k, batch, outs) ==
    IF k > Len(chunk) THEN [exc |-> NoException, batch |-> batch, outs |-> outs]
    ELSE Only({LoopBody(ds, chunk, k, batch, outs, result) :
                   result \in {from_datapoint(ds[chunk[k]])}})

\* from_chunk: an accepted item is kept with the dataset row it came from
\* (the identity of the Item object).
from_chunk(ds, chunk) == ChunkLoop(ds, chunk, 1, <<>>, <<>>)

Min(a, b) == IF a < b THEN a ELSE b

\* The rows of the chunk that starts at 0-based index i:
\* dataset.select(range(i, min(i + CHUNK_SIZE, size))).
SelectRange(i, size) == [k \in 1..(Min(i + CHUNK_SIZE, size) - i) |-> i + k]

\* chunk_generator: one chunk for every i of range(0, size, CHUNK_SIZE).
RECURSIVE ChunksFrom(_, _)
ChunksFrom(i, size) ==
    IF i >= size THEN <<>>
    ELSE <<SelectRange(i, size)>> \o ChunksFrom(i + CHUNK_SIZE, size)

chunk_generator(ds) == ChunksFrom(0, Len(ds))

\* chunk_count = (len(self.dataset) // CHUNK_SIZE) + 1
ChunkCount(ds) == (Len(ds) \div CHUNK_SIZE) + 1

\* results = batch in place of results.extend(batch).
ExtendOverwrite(res, batch) == batch

\* results.extend(batch)
Extend(res, batch) == res \o batch

\* An iterator that hands batches over as chunks complete.
ReadyAsCompleted(k) == cstate[k] = "done" /\ k \notin yielded

\* The iterator of pool.map hands over the batch of chunk k when chunk k is
\* done and every chunk submitted before it has been handed over.
ReadyToYield(k) ==
    /\ cstate[k] = "done"
    /\ k \notin yielded
    /\ \A j \in 1..(k - 1) : j \in yielded

\* The stamping loop left out.
Stamp_nothing(res, name) == res

\* The stamping loop of load_in_parallel: result.category = self.name.
Stamp(res, name) ==
    [k \in 1..Len(res) |-> [res[k] EXCEPT !.item.category = name]]

(***************************************************************************)
(* SpecLoad: load_in_parallel over every small dataset, with the chunks    *)
(* run by up to MaxWorkers worker processes that finish in any order.      *)
(***************************************************************************)

\* Largest dataset.
MaxRows == 3

\* Largest worker count.
MaxWorkers == 2

\* The category name of the loader.
LoaderName == <<"A", "p", "p", "l", "i", "a", "n", "c", "e", "s">>

LongDescription ==
    <<<<"S", "a", "l", "e", " ", "P", "r", "i", "c", "e", " ", "i", "s", " ", "$", "7", " ", "f", "o", "r", " ", "o", "n", "e", " ", "b", "i", "g", " ", "m", "u", "g">>>>

ShortDescription == <<<<"b", "i", "g", " ", "r", "e", "d", " ", "m", "u", "g">>>>

Datapoint(description, priceText) ==
    [title       |-> <<"M", "u", "g">>,
     description |-> description,
     features    |-> <<>>,
     details     |-> None,
     price       |-> priceText]

\* Price texts: "7.49", "0.5", None, "", "1,299", "999.5", "0.49"
Datapoints ==
    {Datapoint(LongDescription, <<"7", ".", "4", "9">>),
     Datapoint(ShortDescription, <<"0", ".", "5">>),
     Datapoint(LongDescription, None),
     Datapoint(LongDescription, <<>>),
     Datapoint(LongDescription, <<"1", ",", "2", "9", "9">>),
     Datapoint(LongDescription, <<"9", "9", "9", ".", "5">>),
     Datapoint(ShortDescription, <<"0", ".", "4", "9">>)}

Datasets == UNION {[1..n -> Datapoints] : n \in 0..MaxRows}

InitLoad ==
    /\ PredictIdle
    /\ DeployIdle
    /\ ScrubIdle
    /\ ItemIdle
    /\ CurateIdle
    /\ TesterIdle
    /\ chunk_count = 0
    /\ dataset \in Datasets
    /\ workers \in 1..MaxWorkers
    /\ chunks = <<>>
    /\ cstate = <<>>
    /\ cresult = <<>>
    /\ outcomes = <<>>
    /\ completed = <<>>
    /\ yielded = {}
    /\ results = <<>>
    /\ returned = <<>>
    /\ lpc = "start"

\* pool.map(self.from_chunk, self.chunk_generator()): every chunk of the
\* generator is submitted to the pool.
Submit ==
    /\ lpc = "start"
    /\ chunk_count' = ChunkCount(dataset)
    /\ chunks' = chunk_generator(dataset)
    /\ cstate' = [k \in 1..Len(chunk_generator(dataset)) |-> "queued"]
    /\ cresult' = [k \in 1..Len(chunk_generator(dataset)) |-> NoneObject]
    /\ lpc' = "mapping"
    /\ UNCHANGED <<dataset, workers, outcomes, completed, yielded, results, returned>>
    /\ UNCHANGED <<scrubVars, itemVars, curateVars, testerVars, predictVars, deployVars>>

Running == {k \in 1..Len(chunks) : cstate[k] = "running"}

\* A free worker process takes the oldest queued chunk.
StartChunk(k) ==
    /\ lpc \in {"mapping", "aborted"}
    /\ cstate[k] = "queued"
    /\ \A j \in 1..(k - 1) : cstate[j] # "queued"
    /\ Cardinality(Running) < workers
    /\ cstate' = [cstate EXCEPT ![k] = "running"]
    /\ UNCHANGED <<chunk_count, dataset, workers, chunks, cresult, outcomes, completed, yielded,
                   results, returned, lpc>>
    /\ UNCHANGED <<scrubVars, itemVars, curateVars, testerVars, predictVars, deployVars>>

\* The worker running chunk k completes from_chunk on it.
FinishChunk(k) ==
    /\ lpc \in {"mapping", "aborted"}
    /\ cstate[k] = "running"
    /\ cstate' = [cstate EXCEPT ![k] = "done"]
    /\ \E done \in {from_chunk(dataset, chunks[k])} :
           /\ cresult' = [cresult EXCEPT ![k] = done]
           /\ outcomes' = outcomes \o done.outs
    /\ completed' = Append(completed, k)
    /\ UNCHANGED <<chunk_count, dataset, workers, chunks, yielded, results, returned, lpc>>
    /\ UNCHANGED <<scrubVars, itemVars, curateVars, testerVars, predictVars, deployVars>>

\* The worker process running chunk k dies; the pool reports the failure as
\* the result of the chunk.
CrashChunk(k) ==
    /\ lpc \in {"mapping", "aborted"}
    /\ cstate[k] = "running"
    /\ cstate' = [cstate EXCEPT ![k] = "done"]
    /\ cresult' = [cresult EXCEPT ![k] =
                      [exc |-> "BrokenProcessPool", batch |-> <<>>, outs |-> <<>>]]
    /\ completed' = Append(completed, k)
    /\ UNCHANGED <<chunk_count, dataset, workers, chunks, outcomes, yielded, results, returned,
                   lpc>>
    /\ UNCHANGED <<scrubVars, itemVars, curateVars, testerVars, predictVars, deployVars>>

\* One round of the for loop over pool.map(...): results.extend(batch).
YieldBatch(k) ==
    /\ lpc = "mapping"
    /\ k \in 1..Len(chunks)
    /\ ReadyToYield(k)
    /\ cresult[k].exc = NoException
    /\ results' = Extend(results, cresult[k].batch)
    /\ yielded' = yielded \cup {k}
    /\ UNCHANGED <<chunk_count, dataset, workers, chunks, cstate, cresult, outcomes, completed,
                   returned, lpc>>
    /\ UNCHANGED <<scrubVars, itemVars, curateVars, testerVars, predictVars, deployVars>>

\* The failed chunk is passed over and the loop goes on with the next.
Abort_salvage(k) ==
    /\ lpc = "mapping"
    /\ k \in 1..Len(chunks)
    /\ ReadyToYield(k)
    /\ cresult[k].exc # NoException
    /\ yielded' = yielded \cup {k}
    /\ UNCHANGED <<chunk_count, dataset, workers, chunks, cstate, cresult, outcomes, completed,
                   results, returned, lpc>>
    /\ UNCHANGED <<scrubVars, itemVars, curateVars, testerVars, predictVars, deployVars>>

\* The iterator re-raises the exception of a failed chunk: the for loop and
\* load_in_parallel end with it.
Abort(k) ==
    /\ lpc = "mapping"
    /\ k \in 1..Len(chunks)
    /\ ReadyToYield(k)
    /\ cresult[k].exc # NoException
    /\ lpc' = "aborted"
    /\ UNCHANGED <<chunk_count, dataset, workers, chunks, cstate, cresult, outcomes, completed,
                   yielded, results, returned>>
    /\ UNCHANGED <<scrubVars, itemVars, curateVars, testerVars, predictVars, deployVars>>

\* After the last batch: every result is annotated with the category.
StampAll ==
    /\ lpc = "mapping"
    /\ yielded = 1..Len(chunks)
    /\ results' = Stamp(results, LoaderName)
    /\ lpc' = "stamped"
    /\ UNCHANGED <<chunk_count, dataset, workers, chunks, cstate, cresult, outcomes, completed,
                   yielded, returned>>
    /\ UNCHANGED <<scrubVars, itemVars, curateVars, testerVars, predictVars, deployVars>>

\* return results
Return ==
    /\ lpc = "stamped"
    /\ returned' = results
    /\ lpc' = "returned"
    /\ UNCHANGED <<chunk_count, dataset, workers, chunks, cstate, cresult, outcomes, completed,
                   yielded, results>>
    /\ UNCHANGED <<scrubVars, itemVars, curateVars, testerVars, predictVars, deployVars>>

NextLoad ==
    \/ Submit
    \/ \E k \in 1..Len(chunks) : StartChunk(k)
    \/ \E k \in 1..Len(chunks) : FinishChunk(k)
    \/ \E k \in 1..Len(chunks) : CrashChunk(k)
    \/ \E k \in 1..Len(chunks) : YieldBatch(k)
    \/ \E k \in 1..Len(chunks) : Abort(k)
    \/ StampAll
    \/ Return

SpecLoad == InitLoad /\ [][NextLoad]_vars

(***************************************************************************)
(* Properties of the loader, checked under SpecLoad.                       *)
(***************************************************************************)

Range(f) == {f[i] : i \in DOMAIN f}

\* The multiset of the entries of a list.
BagOf(list) ==
    [e \in Range(list) |-> Cardinality({i \in DOMAIN list : list[i] = e})]

\* Serial processing, chunk by chunk, of the chunks cs[k..].
RECURSIVE SerialFrom(_, _, _)
SerialFrom(ds, cs, k) ==
    IF k > Len(cs) THEN <<>>
    ELSE from_chunk(ds, cs[k]).batch \o SerialFrom(ds, cs, k + 1)

\* What a load with one worker, taking the chunks one after the other,
\* returns.
SerialLoad(ds) == Stamp(SerialFrom(ds, chunk_generator(ds), 1), LoaderName)

\* The chunk that holds the row.
ChunkOf(row) == CHOOSE k \in 1..Len(chunks) : row \in Range(chunks[k])

\* C8: whatever the worker count and the order in which the workers finish,
\* load_in_parallel returns the same multiset of accepted items as serial
\* chunk-by-chunk processing.
C8_SameMultisetAsSerial ==
    lpc = "returned" => BagOf(returned) = BagOf(SerialLoad(dataset))

C8_Witness ==
    /\ lpc = "returned"
    /\ workers = 2
    /\ Len(completed) = 2 /\ completed[1] = 2
    /\ Len(returned) >= 2

\* C9: the accepted items are returned in chunk-submission order whatever
\* the order in which the workers finish: items of an earlier chunk come
\* before items of a later chunk, and items of one chunk keep record order.
C9_ChunkSubmissionOrder ==
    lpc = "returned" =>
        \A p, q \in DOMAIN returned :
            p < q =>
                \/ ChunkOf(returned[p].row) < ChunkOf(returned[q].row)
                \/ /\ ChunkOf(returned[p].row) = ChunkOf(returned[q].row)
                   /\ returned[p].row < returned[q].row

C9_Witness ==
    /\ lpc = "returned"
    /\ completed = <<2, 1>>
    /\ Len(returned) = 3
    /\ ChunkOf(returned[2].row) = 1
    /\ ChunkOf(returned[3].row) = 2

\* The price text holds a character that no decimal number has.
Unparsable(text) ==
    \E i \in 1..Len(text) :
        text[i] \notin DigitSet \cup {".", "+", "-"} \cup Whitespace

\* The price text is a decimal number outside [MIN_PRICE, MAX_PRICE].
OutOfRange(text) ==
    /\ float(text).exc = NoException
    /\ ~(DecLeq(MIN_PRICE, float(text).value) /\ DecLeq(float(text).value, MAX_PRICE))

\* from_datapoint returned None without raising and without constructing
\* an Item.
SkippedSilently(out) ==
    out.exc = NoException /\ out.ret = NoneObject /\ ~out.built

\* C10: from_datapoint never raises on a price that is None, empty or
\* unparsable: it returns no item and the chunk goes on with the next
\* record; a parsed price outside [MIN_PRICE, MAX_PRICE] gives no item and
\* no Item is constructed.
C10_BadPriceSkipped ==
    /\ \A i \in DOMAIN outcomes :
          LET text == dataset[outcomes[i].row].price
          IN  /\ text = None \/ text = <<>> \/ Unparsable(text)
                    => SkippedSilently(outcomes[i].out)
              /\ text # None /\ text # <<>> /\ OutOfRange(text)
                    => SkippedSilently(outcomes[i].out)
    /\ \A k \in 1..Len(chunks) :
          cstate[k] = "done" /\ cresult[k].exc # "BrokenProcessPool"
              => \A r \in Range(chunks[k]) :
                     \E i \in DOMAIN outcomes : outcomes[i].row = r

C10_Witness ==
    /\ lpc = "returned"
    /\ Len(dataset) = 3
    /\ Unparsable(dataset[1].price)
    /\ dataset[3].price = None
    /\ Len(returned) = 1
    /\ returned[1].row = 2

\* The chunks whose processing failed in a worker.
FailedChunks ==
    {k \in 1..Len(chunks) : cstate[k] = "done" /\ cresult[k].exc # NoException}

\* C19: when the processing of a chunk fails in a worker, the failure ends
\* load_in_parallel: no list is returned, not even the batches of the
\* chunks that completed, and no item is stamped with a category.
C19_WorkerFailureAborts ==
    /\ FailedChunks # {} => lpc \notin {"stamped", "returned"}
    /\ lpc = "aborted" =>
           /\ returned = <<>>
           /\ \A k \in DOMAIN results : results[k].item.category = None
           /\ \E k \in FailedChunks : ReadyToYield(k)

C19_Witness ==
    /\ lpc = "aborted"
    /\ Len(chunks) = 2
    /\ FailedChunks = {2}
    /\ yielded = {1}
    /\ Len(results) = 2

\* The chunks are contiguous, in ascending order, non-empty, of CHUNK_SIZE
\* rows except possibly the last, and every row is in exactly one of them.
ChunksPartition ==
    /\ \A r \in 1..Len(dataset) :
           Cardinality({k \in 1..Len(chunks) : r \in Range(chunks[k])}) = 1
    /\ \A k \in 1..Len(chunks) :
           /\ chunks[k] # <<>>
           /\ Range(chunks[k]) \subseteq 1..Len(dataset)
           /\ chunks[k][1] = (k - 1) * CHUNK_SIZE + 1
           /\ \A j \in 1..(Len(chunks[k]) - 1) : chunks[k][j + 1] = chunks[k][j] + 1
           /\ k < Len(chunks) => Len(chunks[k]) = CHUNK_SIZE
           /\ Len(chunks[k]) <= CHUNK_SIZE

\* ceil(n / d) for d > 0.
Ceil(n, d) == (n + d - 1) \div d

\* C21: chunk_generator partitions the rows into contiguous chunks of
\* CHUNK_SIZE rows (the last may be shorter, none is empty), in ascending
\* order; there are ceil(N / CHUNK_SIZE) chunks, and that number is the
\* total chunk_count given to the progress bar.
C21_ChunksAndProgressTotal ==
    lpc \notin {"idle", "start"} =>
        /\ ChunksPartition
        /\ Len(chunks) = Ceil(Len(dataset), CHUNK_SIZE)
        /\ chunk_count = Ceil(Len(dataset), CHUNK_SIZE)

\* Every item held by the loader or by a finished worker.
HeldItems ==
    Range(results) \cup Range(returned)
        \cup UNION {Range(cresult[k].batch) :
                        k \in {j \in 1..Len(chunks) : cstate[j] = "done"}}

\* C22: no item carries a category while a chunk is still queued or being
\* processed; when load_in_parallel returns, every returned item carries
\* the name of the loader.
C22_StampedAfterAllChunks ==
    /\ (\E k \in 1..Len(chunks) : cstate[k] # "done") =>
           \A e \in HeldItems : e.item.category = None
    /\ lpc = "returned" =>
           \A k \in DOMAIN returned : returned[k].item.category = LoaderName
    /\ lpc \in {"stamped", "returned"} =>
           \A k \in DOMAIN results : results[k].item.category = LoaderName

C22_Witness ==
    /\ lpc = "returned"
    /\ Len(chunks) = 2
    /\ Len(returned) = 2
    /\ returned[1].item.category = LoaderName
    /\ returned[2].row = 3

(***************************************************************************)
(* The dataset-curation cells: load, bucket by rounded price, balanced     *)
(* sample, shuffle and split.  An item of a list is the pair of the        *)
(* dataset row it was built from (the identity of the Item object) and the *)
(* Item.                                                                   *)
(***************************************************************************)

\* ItemLoader.load(workers): the list load_in_parallel returns, the batches
\* of the chunks in submission order, stamped with the category.
load(ds) == Stamp(SerialFrom(ds, chunk_generator(ds), 1), LoaderName)

\* slots = defaultdict(list); for item in items: slots[round(item.price)].append(item)
Bucket(its) ==
    [key \in {SlotOf(its[k].item) : k \in DOMAIN its} |->
        SelectSeq(its, LAMBDA e : SlotOf(e.item) = key)]

\* slots[i] of the defaultdict: the empty list for a key never appended to.
SlotGet(sl, i) == IF i \in DOMAIN sl THEN sl[i] ELSE <<>>

\* The stop of range(1, 1000) in the sampling cell.
SlotStop == 1000

\* The first slot index that is never capped (i >= 240).
CapThreshold == 240

\* The largest population kept whole below the threshold, and the number of
\* items drawn from a larger one (500 in the notebook, scaled).
CapBucketMax == 2

\* The condition of the sampling loop with the threshold test left out.
TakesWholeSlot_no_threshold(i, slot) == Len(slot) <= CapBucketMax

\* The condition of the sampling loop: i >= 240 or len(slot) <= 500.
TakesWholeSlot(i, slot) == i >= CapThreshold \/ Len(slot) <= CapBucketMax

\* The lists random.sample(range(n), k) can return: k distinct positions
\* in any order.
IndexSamples(n, k) ==
    {q \in [1..k -> 1..n] : \A a, b \in 1..k : a # b => q[a] # q[b]}

\* What one round of the sampling loop extends sample with, pick[i] being
\* the positions random.sample draws from slot i.
SlotPart(sl, pick, i) ==
    IF TakesWholeSlot(i, SlotGet(sl, i)) THEN SlotGet(sl, i)
    ELSE [k \in 1..CapBucketMax |-> sl[i][pick[i][k]]]

\* The list the rounds lo..hi of the sampling loop append, in order of i
\* (evaluated by halving the range).
RECURSIVE SampleRange(_, _, _, _)
SampleRange(sl, pick, lo, hi) ==
    IF lo > hi THEN <<>>
    ELSE IF lo = hi THEN SlotPart(sl, pick, lo)
    ELSE SampleRange(sl, pick, lo, (lo + hi) \div 2)
             \o SampleRange(sl, pick, (lo + hi) \div 2 + 1, hi)

\* The slots of range(1, 1000) that the sampling loop draws from.
Capped(sl) == {i \in DOMAIN sl : i \in 1..(SlotStop - 1) /\ ~TakesWholeSlot(i, sl[i])}

\* train = sample[:100_000] (100_000 in the notebook, scaled).
TrainSize == 2

\* The stop of test = sample[100_000:102_000] (102_000 in the notebook,
\* scaled).
TestStop == 3

\* list[a:b] for 0 <= a and 0 <= b.
Slice(list, a, b) == SubSeq(list, Min(a, Len(list)) + 1, Min(b, Len(list)))

\* The permutations random.shuffle can apply to a list of n entries.
ShufflePermutations(n) ==
    {q \in [1..n -> 1..n] : \A a, b \in 1..n : a # b => q[a] # q[b]}

\* random.shuffle(list), q being the permutation the generator yields.
shuffle(list, q) == [k \in 1..Len(list) |-> list[q[k]]]

TrainPartition(shuffled) == Slice(shuffled, 0, TrainSize)

\* The test slice starting one entry early.
TestPartition_overlap(shuffled) == Slice(shuffled, TrainSize - 1, TestStop)

TestPartition(shuffled) == Slice(shuffled, TrainSize, TestStop)

(***************************************************************************)
(* SpecCurate: the curation cells run in notebook order over every small   *)
(* dataset; the split cell can be executed again.                          *)
(***************************************************************************)

\* Largest dataset of SpecCurate.
MaxCurateRows == 4

\* Largest number of executions of the split cell.
MaxSplitRuns == 2

\* Price texts: "7.49" and "240.2" (included), "0.5" (included, rounds to
\* slot 0), "7.49" on a short description (not included), "999.5" (above
\* MAX_PRICE).
CurateDatapoints ==
    {Datapoint(LongDescription, <<"7", ".", "4", "9">>),
     Datapoint(LongDescription, <<"2", "4", "0", ".", "2">>),
     Datapoint(LongDescription, <<"0", ".", "5">>),
     Datapoint(ShortDescription, <<"7", ".", "4", "9">>),
     Datapoint(LongDescription, <<"9", "9", "9", ".", "5">>)}

CurateDatasets == UNION {[1..n -> CurateDatapoints] : n \in 0..MaxCurateRows}

InitCurate ==
    /\ PredictIdle
    /\ DeployIdle
    /\ ScrubIdle
    /\ ItemIdle
    /\ TesterIdle
    /\ chunk_count = 0
    /\ dataset \in CurateDatasets
    /\ workers = 0
    /\ chunks = <<>>
    /\ cstate = <<>>
    /\ cresult = <<>>
    /\ outcomes = <<>>
    /\ completed = <<>>
    /\ yielded = {}
    /\ results = <<>>
    /\ returned = <<>>
    /\ lpc = "idle"
    /\ items = <<>>
    /\ slots = <<>>
    /\ sample = <<>>
    /\ train = <<>>
    /\ test = <<>>
    /\ rng40 = <<>>
    /\ splits = <<>>
    /\ train_dataset = <<>>
    /\ test_dataset = <<>>
    /\ documents = <<>>
    /\ cpc = "raw"

\* items = ItemLoader("Electronics").load(workers=2)
LoadCell ==
    /\ cpc = "raw"
    /\ items' = load(dataset)
    /\ cpc' = "loaded"
    /\ UNCHANGED <<slots, sample, train, test, rng40, splits, train_dataset,
                   test_dataset, documents>>
    /\ UNCHANGED <<scrubVars, itemVars, loadVars, testerVars, predictVars, deployVars>>

\* The cell that groups the items by rounded price.
BucketCell ==
    /\ cpc = "loaded"
    /\ slots' = Bucket(items)
    /\ cpc' = "bucketed"
    /\ UNCHANGED <<items, sample, train, test, rng40, splits, train_dataset,
                   test_dataset, documents>>
    /\ UNCHANGED <<scrubVars, itemVars, loadVars, testerVars, predictVars, deployVars>>

\* The sampling cell: sample = [] and the loop over range(1, 1000).
SampleCell ==
    /\ cpc = "bucketed"
    /\ \E pick \in [Capped(slots) -> IndexSamples(MaxCurateRows, CapBucketMax)] :
           /\ \A i \in Capped(slots) :
                  \A k \in 1..CapBucketMax : pick[i][k] <= Len(slots[i])
           /\ sample' = SampleRange(slots, pick, 1, SlotStop - 1)
    /\ cpc' = "sampled"
    /\ UNCHANGED <<items, slots, train, test, rng40, splits, train_dataset,
                   test_dataset, documents>>
    /\ UNCHANGED <<scrubVars, itemVars, loadVars, testerVars, predictVars, deployVars>>

\* The split cell: random.seed(40); random.shuffle(sample); the two
\* slices.  The seed fixes the permutation of a list of this length, so
\* every execution applies the one drawn at the first.
SplitCell ==
    /\ cpc \in {"sampled", "split"}
    /\ Len(splits) < MaxSplitRuns
    /\ \E q \in ShufflePermutations(Len(sample)) :
           /\ splits = <<>> \/ q = rng40
           /\ rng40' = q
           /\ \E shuffled \in {shuffle(sample, q)} :
                  /\ sample' = shuffled
                  /\ train' = TrainPartition(shuffled)
                  /\ test' = TestPartition(shuffled)
                  /\ splits' = Append(splits, [train |-> TrainPartition(shuffled),
                                               test  |-> TestPartition(shuffled)])
    /\ cpc' = "split"
    /\ UNCHANGED <<items, slots, train_dataset, test_dataset, documents>>
    /\ UNCHANGED <<scrubVars, itemVars, loadVars, testerVars, predictVars, deployVars>>

\* train_prices / test_prices with every price replaced by zero.
PersistedPrice_zero(e) == Dec(0, 1)

\* train_prices = [item.price for item in train], and the same for test.
PersistedPrice(e) == e.item.price

\* The cells that build the persisted dataset: the text of a train record
\* is item.prompt, the text of a test record is item.test_prompt(), the
\* price of both is item.price.
DatasetCell ==
    /\ cpc = "split"
    /\ train_dataset' = [k \in DOMAIN train |->
                             [text  |-> train[k].item.prompt,
                              price |-> PersistedPrice(train[k])]]
    /\ test_dataset' = [k \in DOMAIN test |->
                            [text  |-> test_prompt(test[k].item),
                             price |-> PersistedPrice(test[k])]]
    /\ cpc' = "persisted"
    /\ UNCHANGED <<items, slots, sample, train, test, rng40, splits, documents>>
    /\ UNCHANGED <<scrubVars, itemVars, loadVars, testerVars, predictVars, deployVars>>

\* train = dataset['train'] and
\* documents = [item["text"] for item in train].
DocumentsCell ==
    /\ cpc = "persisted"
    /\ documents' = [k \in DOMAIN train_dataset |-> train_dataset[k].text]
    /\ cpc' = "fitted"
    /\ UNCHANGED <<items, slots, sample, train, test, rng40, splits, train_dataset,
                   test_dataset>>
    /\ UNCHANGED <<scrubVars, itemVars, loadVars, testerVars, predictVars, deployVars>>

NextCurate ==
    LoadCell \/ BucketCell \/ SampleCell \/ SplitCell \/ DatasetCell \/ DocumentsCell

SpecCurate == InitCurate /\ [][NextCurate]_vars

(***************************************************************************)
(* Properties of the curation cells, checked under SpecCurate.             *)
(***************************************************************************)

\* The item is marked for inclusion and its price lies in the closed range
\* [MIN_PRICE, MAX_PRICE].
Admissible(e) ==
    /\ e.item.include
    /\ DecLeq(MIN_PRICE, e.item.price)
    /\ DecLeq(e.item.price, MAX_PRICE)

\* The price of the item is the number its dataset row states.
PriceAsLoaded(e) == e.item.price = float(dataset[e.row].price).value

\* Every list of items the pipeline holds.
PipelineLists ==
    {items, sample, train, test} \cup {slots[i] : i \in DOMAIN slots}

\* C11: every item the loader returned, and every item of the slots, the
\* balanced sample, train and test, has include = TRUE and a price within
\* [MIN_PRICE, MAX_PRICE], and its price is still the price of its dataset
\* row: no step changes it.
C11_AdmissibleEverywhere ==
    \A list \in PipelineLists :
        \A k \in DOMAIN list : Admissible(list[k]) /\ PriceAsLoaded(list[k])

C11_Witness ==
    /\ cpc = "split"
    /\ Len(dataset) = 4
    /\ float(dataset[1].price).value = Dec(9995, 10)
    /\ dataset[2].description = ShortDescription
    /\ Len(items) = 2
    /\ items[1].item.price = MIN_PRICE
    /\ Len(train) = 1
    /\ train[1].row = 4

\* The rows (identities) of the entries of a list.
Rows(list) == {list[k].row : k \in DOMAIN list}

\* The entries of the sample that belong to slot i.
SampleOfSlot(i) == {k \in DOMAIN sample : SlotOf(sample[k].item) = i}

\* C12: a slot below 240 with more than CapBucketMax items contributes
\* exactly CapBucketMax distinct items of that slot; every other slot of
\* 1..999 contributes its full population; the sample holds no item that
\* is not an input item and no item twice.
C12_BalancedSample ==
    cpc \in {"sampled", "split"} =>
        /\ \A i \in 1..(SlotStop - 1) :
               LET population == SlotGet(slots, i)
                   got == {sample[k].row : k \in SampleOfSlot(i)}
               IN  IF i < CapThreshold /\ Len(population) > CapBucketMax
                   THEN /\ Cardinality(got) = CapBucketMax
                        /\ got \subseteq Rows(population)
                   ELSE got = Rows(population)
        /\ \A k \in DOMAIN sample : \E j \in DOMAIN items : sample[k] = items[j]
        /\ \A j, k \in DOMAIN sample : j # k => sample[j].row # sample[k].row

C12_Witness ==
    /\ cpc = "sampled"
    /\ Len(SlotGet(slots, 7)) = 3
    /\ Cardinality(SampleOfSlot(7)) = 2
    /\ Len(SlotGet(slots, 0)) = 1
    /\ Len(sample) = 2
    /\ sample[1].row > sample[2].row

\* A slot at or above the threshold is kept whole however large it is.
C12_WitnessUncapped ==
    /\ cpc = "sampled"
    /\ Len(SlotGet(slots, 240)) = 3
    /\ Cardinality(SampleOfSlot(240)) = 3

\* C13: after the split cell, train is the first TrainSize entries of the
\* shuffled sample and test the entries after them up to TestStop; no item
\* is in both; the sizes are truncated to what the sample holds.
C13_SplitPartitions ==
    cpc = "split" =>
        /\ Len(train) = Min(TrainSize, Len(sample))
        /\ Len(test) = Min(TestStop - TrainSize,
                           IF Len(sample) - TrainSize > 0
                           THEN Len(sample) - TrainSize ELSE 0)
        /\ \A k \in DOMAIN train : train[k] = sample[k]
        /\ \A k \in DOMAIN test : test[k] = sample[TrainSize + k]
        /\ Rows(train) \cap Rows(test) = {}

C13_Witness ==
    /\ cpc = "split"
    /\ Len(sample) = 4
    /\ Len(train) = TrainSize
    /\ Len(test) = TestStop - TrainSize
    /\ rng40 = <<3, 1, 4, 2>>

\* The sample is shorter than TrainSize + testSize: the sizes are truncated.
C13_WitnessTruncated ==
    /\ cpc = "split"
    /\ Len(sample) = 1
    /\ Len(train) = 1
    /\ test = <<>>

\* C14: with the fixed seed, executing the split cell again on the same
\* sample variable gives the same train and the same test.
C14_SplitRepeatable ==
    \A a, b \in DOMAIN splits : splits[a] = splits[b]

\* C24: every item the loader accepted is bucketed into one of the slots
\* 1..999 that the sampling loop visits, so an item is missing from the
\* balanced sample only if its slot was capped.
C24_AcceptedItemsInVisitedSlots ==
    /\ \A k \in DOMAIN items : SlotOf(items[k].item) \in 1..(SlotStop - 1)
    /\ cpc = "sampled" =>
           \A k \in DOMAIN items :
               items[k].row \notin Rows(sample) => SlotOf(items[k].item) \in Capped(slots)

\* a - b and |a| on prices.
DecSub(a, b) == Dec(a.num * b.den - b.num * a.den, a.den * b.den)
DecAbs(a) == Dec(Abs(a.num), a.den)

\* color_for(error, truth) returns: it divides error by truth unless
\* error < 40.
ColorForReturns(error, truth) == ~DecLeq(Dec(40, 1), error) \/ truth.num # 0

\* Guesses of a predictor: zero, below and above the absolute thresholds.
NonNegativeGuesses == {Dec(0, 1), Dec(1, 2), Dec(749, 100), Dec(300, 1), Dec(1000, 1)}

\* The records of both persisted partitions.
PersistedRecords ==
    {train_dataset[k] : k \in DOMAIN train_dataset}
        \cup {test_dataset[k] : k \in DOMAIN test_dataset}

\* C25: every record of the persisted train and test partitions has a
\* price > 0, at least MIN_PRICE, so color_for returns a tier for every
\* persisted record and every non-negative guess.
C25_NoZeroTruth ==
    \A rec \in PersistedRecords :
        /\ rec.price.num > 0
        /\ DecLeq(MIN_PRICE, rec.price)
        /\ \A guess \in NonNegativeGuesses :
               ColorForReturns(DecAbs(DecSub(guess, rec.price)), rec.price)

C25_Witness ==
    /\ cpc = "persisted"
    /\ Len(train_dataset) = 2
    /\ Len(test_dataset) = 1
    /\ test_dataset[1].price = Dec(749, 100)
    /\ train_dataset[1].price = Dec(2402, 10)
    /\ \E k \in DOMAIN items : items[k].item.price = MIN_PRICE

\* The text states the answer for the price: "Price is $" and the rounded
\* price.
RevealsPrice(text, p) == Contains(text, PREFIX \o PriceAnswer(p))

\* C26: the text of every persisted test record is the test prompt of its
\* item, the text of every train record is the prompt, and the documents
\* the baseline regressors are fitted on do not contain the price answer.
C26_NoPriceLeak ==
    /\ \A k \in DOMAIN test_dataset :
           /\ test_dataset[k].text = test_prompt(test[k].item)
           /\ ~RevealsPrice(test_dataset[k].text, test_dataset[k].price)
    /\ \A k \in DOMAIN train_dataset : train_dataset[k].text = train[k].item.prompt
    /\ \A k \in DOMAIN documents :
           ~RevealsPrice(documents[k], train_dataset[k].price)

(***************************************************************************)
(* The Tester class.  Prices and guesses are whole dollar amounts; the     *)
(* quotients of color_for and report are exact.                            *)
(***************************************************************************)

\* error / truth < num / den, for truth > 0.
RatioBelow(error, truth, num, den) == error * den < num * truth

\* color_for with "and" in place of "or" in both tests.
color_for_both(error, truth) ==
    IF error < 40 /\ RatioBelow(error, truth, 2, 10) THEN "green"
    ELSE IF error < 80 /\ RatioBelow(error, truth, 4, 10) THEN "orange"
    ELSE "red"

color_for(error, truth) ==
    IF error < 40 \/ RatioBelow(error, truth, 2, 10) THEN "green"
    ELSE IF error < 80 \/ RatioBelow(error, truth, 4, 10) THEN "orange"
    ELSE "red"

\* sum(list)
RECURSIVE Sum(_)
Sum(list) == IF list = <<>> THEN 0 ELSE Head(list) + Sum(Tail(list))

\* The squared log error of a guess, (log(truth + 1) - log(guess + 1)) ** 2,
\* kept as the pair it is computed from.
SquaredLogError(guess, truth) == [truth |-> truth, guess |-> guess]

\* The exact value of the float division num / den.
Quotient(num, den) == [num |-> num, den |-> den]

\* The values Tester.report computes and charts from the lists of the
\* Tester: average_error and the hit percentage as exact quotients, rmsle
\* as the quotient under the square root.
report(errs, sl, cols, tr, gs, sz) ==
    [average_error |-> Quotient(Sum(errs), sz),
     rmsle_squared |-> [sles |-> sl, size |-> sz],
     hits          |-> Cardinality({k \in DOMAIN cols : cols[k] = "green"}),
     hit_percent   |-> Quotient(Cardinality({k \in DOMAIN cols : cols[k] = "green"}) * 100, sz),
     chart         |-> [truths |-> tr, guesses |-> gs, colors |-> cols]]

\* The exception run_datapoint raises after the predictor returned, before
\* it records anything: math.log of a number that is not positive, or the
\* division of color_for by a truth of zero (reached when error >= 40).
ComputeError(guess, truth) ==
    IF truth + 1 <= 0 \/ guess + 1 <= 0 THEN "ValueError"
    ELSE IF ~(Abs(guess - truth) < 40) /\ truth = 0 THEN "ZeroDivisionError"
    ELSE NoException

\* An except clause around the predictor call that swallows the exception.
CaughtByTester_skip(exc) == TRUE

\* Tester.run and Tester.run_datapoint have no try statement: no exception
\* of the predictor is caught.
CaughtByTester(exc) == FALSE

(***************************************************************************)
(* SpecTester: a Tester over every small test set, run up to MaxRuns       *)
(* times; the predictor returns its guess or raises, call by call.         *)
(***************************************************************************)

\* Largest test set.
MaxData == 2

\* Largest number of runs of one Tester.
MaxRuns == 2

\* The exception of a failing predictor call.
PredictorError == "PredictorError"

\* Datapoints with the guess of the predictor: (truth, guess).
Cases ==
    {[truth |-> 10,  guess |-> 50],
     [truth |-> 50,  guess |-> 50],
     [truth |-> 90,  guess |-> 50],
     [truth |-> 100, guess |-> 110],
     [truth |-> 100, guess |-> 130],
     [truth |-> 200, guess |-> 240],
     [truth |-> 200, guess |-> 280],
     [truth |-> 400, guess |-> 480],
     [truth |-> 600, guess |-> 500],
     [truth |-> 100, guess |-> -5],
     [truth |-> 0,   guess |-> 50]}

CaseLists == UNION {[1..n -> Cases] : n \in 1..MaxData}

\* Tester(predictor, data, size=size)
InitTester ==
    /\ PredictIdle
    /\ DeployIdle
    /\ ScrubIdle
    /\ ItemIdle
    /\ LoadIdle
    /\ CurateIdle
    /\ \E cs \in CaseLists :
           /\ tdata = [k \in DOMAIN cs |-> cs[k].truth]
           /\ predictor = [k \in DOMAIN cs |-> cs[k].guess]
           /\ tsize \in 1..Len(cs)
    /\ guesses = <<>>
    /\ truths = <<>>
    /\ errors = <<>>
    /\ sles = <<>>
    /\ colors = <<>>
    /\ ti = 0
    /\ evaluated = <<>>
    /\ raised = <<>>
    /\ reports = <<>>
    /\ tpc = "created"

\* Tester.run is called: self.error = 0 (an attribute nothing reads) and
\* the loop starts at i = 0.
Run ==
    /\ tpc \in {"created", "reported", "aborted"}
    /\ Len(raised) < MaxRuns
    /\ ti' = 0
    /\ evaluated' = Append(evaluated, <<>>)
    /\ raised' = Append(raised, NoException)
    /\ tpc' = "running"
    /\ UNCHANGED <<predictor, tdata, tsize, guesses, truths, errors, sles, colors,
                   reports>>
    /\ UNCHANGED <<scrubVars, itemVars, loadVars, curateVars, predictVars, deployVars>>

\* One round of the loop of Tester.run: run_datapoint(i) with the predictor
\* returning its guess.
RunDatapoint ==
    /\ tpc = "running"
    /\ ti < tsize
    /\ ComputeError(predictor[ti + 1], tdata[ti + 1]) = NoException
    /\ guesses' = Append(guesses, predictor[ti + 1])
    /\ truths' = Append(truths, tdata[ti + 1])
    /\ errors' = Append(errors, Abs(predictor[ti + 1] - tdata[ti + 1]))
    /\ sles' = Append(sles, SquaredLogError(predictor[ti + 1], tdata[ti + 1]))
    /\ colors' = Append(colors,
                        color_for(Abs(predictor[ti + 1] - tdata[ti + 1]), tdata[ti + 1]))
    /\ evaluated' = [evaluated EXCEPT ![Len(evaluated)] =
                         Append(@, [i |-> ti, outcome |-> "returned"])]
    /\ ti' = ti + 1
    /\ UNCHANGED <<predictor, tdata, tsize, raised, reports, tpc>>
    /\ UNCHANGED <<scrubVars, itemVars, loadVars, curateVars, predictVars, deployVars>>

\* One round of the loop of Tester.run: run_datapoint(i) with the predictor
\* raising.  The exception leaves run_datapoint before anything is
\* appended, and leaves run.
PredictorRaises ==
    /\ tpc = "running"
    /\ ti < tsize
    /\ evaluated' = [evaluated EXCEPT ![Len(evaluated)] =
                         Append(@, [i |-> ti, outcome |-> "raised"])]
    /\ IF CaughtByTester(PredictorError)
       THEN /\ ti' = ti + 1
            /\ UNCHANGED <<raised, tpc>>
       ELSE /\ raised' = [raised EXCEPT ![Len(raised)] = PredictorError]
            /\ tpc' = "aborted"
            /\ UNCHANGED ti
    /\ UNCHANGED <<predictor, tdata, tsize, guesses, truths, errors, sles, colors,
                   reports>>
    /\ UNCHANGED <<scrubVars, itemVars, loadVars, curateVars, predictVars, deployVars>>

\* run_datapoint(i) failing with the guess already appended.
ComputeRaises_after_guess ==
    /\ tpc = "running"
    /\ ti < tsize
    /\ ComputeError(predictor[ti + 1], tdata[ti + 1]) # NoException
    /\ guesses' = Append(guesses, predictor[ti + 1])
    /\ evaluated' = [evaluated EXCEPT ![Len(evaluated)] =
                         Append(@, [i |-> ti, outcome |-> "failed"])]
    /\ raised' = [raised EXCEPT ![Len(raised)] =
                      ComputeError(predictor[ti + 1], tdata[ti + 1])]
    /\ tpc' = "aborted"
    /\ UNCHANGED <<predictor, tdata, tsize, truths, errors, sles, colors, ti,
                   reports>>
    /\ UNCHANGED <<scrubVars, itemVars, loadVars, curateVars, predictVars, deployVars>>

\* One round of the loop of Tester.run: run_datapoint(i) with the predictor
\* returning a guess for which the log error or the color cannot be
\* computed.  The exception leaves run_datapoint before the appends, and
\* leaves run.
ComputeRaises ==
    /\ tpc = "running"
    /\ ti < tsize
    /\ ComputeError(predictor[ti + 1], tdata[ti + 1]) # NoException
    /\ evaluated' = [evaluated EXCEPT ![Len(evaluated)] =
                         Append(@, [i |-> ti, outcome |-> "failed"])]
    /\ raised' = [raised EXCEPT ![Len(raised)] =
                      ComputeError(predictor[ti + 1], tdata[ti + 1])]
    /\ tpc' = "aborted"
    /\ UNCHANGED <<predictor, tdata, tsize, guesses, truths, errors, sles, colors, ti,
                   reports>>
    /\ UNCHANGED <<scrubVars, itemVars, loadVars, curateVars, predictVars, deployVars>>

\* self.report() called after the first round of the loop.
Report_early ==
    /\ tpc = "running"
    /\ ti >= 1
    /\ reports' = Append(reports,
                         [run    |-> Len(raised),
                          values |-> report(errors, sles, colors, truths, guesses, tsize)])
    /\ tpc' = "reported"
    /\ UNCHANGED <<predictor, tdata, tsize, guesses, truths, errors, sles, colors, ti,
                   evaluated, raised>>
    /\ UNCHANGED <<scrubVars, itemVars, loadVars, curateVars, predictVars, deployVars>>

\* The loop of Tester.run is over: self.report().
Report ==
    /\ tpc = "running"
    /\ ti = tsize
    /\ reports' = Append(reports,
                         [run    |-> Len(raised),
                          values |-> report(errors, sles, colors, truths, guesses, tsize)])
    /\ tpc' = "reported"
    /\ UNCHANGED <<predictor, tdata, tsize, guesses, truths, errors, sles, colors, ti,
                   evaluated, raised>>
    /\ UNCHANGED <<scrubVars, itemVars, loadVars, curateVars, predictVars, deployVars>>

\* A new Tester is created for the same predictor, data and size.
NewTester ==
    /\ tpc \in {"reported", "aborted"}
    /\ guesses' = <<>>
    /\ truths' = <<>>
    /\ errors' = <<>>
    /\ sles' = <<>>
    /\ colors' = <<>>
    /\ ti' = 0
    /\ evaluated' = <<>>
    /\ raised' = <<>>
    /\ reports' = <<>>
    /\ tpc' = "created"
    /\ UNCHANGED <<predictor, tdata, tsize>>
    /\ UNCHANGED <<scrubVars, itemVars, loadVars, curateVars, predictVars, deployVars>>

NextTester ==
    Run \/ RunDatapoint \/ PredictorRaises \/ ComputeRaises \/ Report \/ NewTester

SpecTester == InitTester /\ [][NextTester]_vars

(***************************************************************************)
(* Properties of the Tester, checked under SpecTester.                     *)
(***************************************************************************)

\* C15: the severity of every recorded item is decided by its absolute
\* error and its truth, first match wins: low (green) iff error < 40 or
\* error / truth < 0.2; otherwise medium (orange) iff error < 80 or
\* error / truth < 0.4; otherwise high (red).  A guess of 50 against the
\* truths 10, 50, 90 is medium, low, medium.
C15_SeverityTiers ==
    \A k \in DOMAIN colors :
        LET error  == errors[k]
            truth  == truths[k]
            low    == error < 40 \/ 5 * error < truth
            medium == error < 80 \/ 5 * error < 2 * truth
        IN  /\ error = Abs(guesses[k] - truth)
            /\ colors[k] = IF low THEN "green" ELSE IF medium THEN "orange" ELSE "red"
            /\ guesses[k] = 50 /\ truth \in {10, 90} => colors[k] = "orange"
            /\ guesses[k] = 50 /\ truth = 50 => colors[k] = "green"

C15_Witness ==
    /\ tpc = "reported"
    /\ Len(reports) = 1
    /\ truths = <<10, 90>>
    /\ guesses = <<50, 50>>
    /\ colors = <<"orange", "orange">>

\* An error of exactly 80 at exactly 0.4 of the truth is high.
C15_WitnessHigh ==
    /\ truths = <<200>>
    /\ guesses = <<280>>
    /\ colors = <<"red">>

\* The absolute errors of the items 0..size-1 of a run.
RunErrors == [k \in 1..tsize |-> Abs(predictor[k] - tdata[k])]

\* The items 0..size-1 of a run that are classified low.
RunHits == {k \in 1..tsize : color_for(RunErrors[k], tdata[k]) = "green"}

\* C16: every report is computed over exactly the size items of its run:
\* the mean absolute error is the sum of their errors divided by size, the
\* hit rate is the number of them classified low divided by size, and the
\* hit rate does not exceed 100%.
C16_AggregatesOverRunItems ==
    \A j \in DOMAIN reports :
        LET v == reports[j].values
        IN  /\ v.average_error = Quotient(Sum(RunErrors), tsize)
            /\ v.hits = Cardinality(RunHits)
            /\ v.hit_percent.num <= 100 * v.hit_percent.den

\* What a freshly created Tester reports for the predictor, data and size.
FreshReport ==
    report(RunErrors,
           [k \in 1..tsize |-> SquaredLogError(predictor[k], tdata[k])],
           [k \in 1..tsize |-> color_for(RunErrors[k], tdata[k])],
           [k \in 1..tsize |-> tdata[k]],
           [k \in 1..tsize |-> predictor[k]],
           tsize)

\* C17: whatever runs came before on the Tester, completed or aborted, a
\* run reports what a run on a freshly created Tester reports.
C17_RunsIndependent ==
    \A j \in DOMAIN reports : reports[j].values = FreshReport

\* The number of predictor calls that returned, over all runs of the Tester.
RECURSIVE ReturnedCalls(_)
ReturnedCalls(r) ==
    IF r = 0 THEN 0
    ELSE ReturnedCalls(r - 1)
         + Cardinality({p \in DOMAIN evaluated[r] : evaluated[r][p].outcome = "returned"})

\* C18: when the predictor raises on item k of a run, the exception leaves
\* run (it is not caught), k is the last item of the run given to the
\* predictor, nothing is recorded for item k, and the run produces no report.
C18_PredictorErrorAborts ==
    /\ \A r \in DOMAIN evaluated :
           \A p \in DOMAIN evaluated[r] :
               /\ evaluated[r][p].i = p - 1
               /\ evaluated[r][p].outcome = "raised" =>
                      /\ p = Len(evaluated[r])
                      /\ raised[r] = PredictorError
                      /\ r = Len(evaluated) => tpc = "aborted"
                      /\ \A j \in DOMAIN reports : reports[j].run # r
    /\ Len(guesses) = ReturnedCalls(Len(evaluated))
    /\ Len(truths) = Len(guesses)
    /\ Len(errors) = Len(guesses)
    /\ Len(sles) = Len(guesses)
    /\ Len(colors) = Len(guesses)

C18_Witness ==
    /\ tpc = "aborted"
    /\ tsize = 2
    /\ Len(evaluated) = 1
    /\ Len(evaluated[1]) = 2
    /\ evaluated[1][2] = [i |-> 1, outcome |-> "raised"]
    /\ raised = <<PredictorError>>
    /\ Len(guesses) = 1
    /\ reports = <<>>

\* C23: in a run that reports, the predictor was invoked exactly once for
\* each index 0..size-1, in ascending order, each guess is recorded with
\* the truth of the same datapoint, and the report is produced once, after
\* all size items.
C23_EachItemOnceThenReport ==
    /\ \A j \in DOMAIN reports :
           LET r     == reports[j].run
               chart == reports[j].values.chart
               n     == Len(chart.truths)
           IN  /\ evaluated[r] = [p \in 1..tsize |-> [i |-> p - 1, outcome |-> "returned"]]
               /\ raised[r] = NoException
               /\ \A j2 \in DOMAIN reports : j2 # j => reports[j2].run # r
               /\ Len(chart.guesses) = n
               /\ \A p \in 1..tsize :
                      /\ chart.truths[n - tsize + p] = tdata[p]
                      /\ chart.guesses[n - tsize + p] = predictor[p]
    /\ tpc = "running" => \A j \in DOMAIN reports : reports[j].run # Len(raised)
    /\ tpc = "reported" => \E j \in DOMAIN reports : reports[j].run = Len(raised)

C23_Witness ==
    /\ tpc = "reported"
    /\ tsize = 2
    /\ tdata = <<100, 200>>
    /\ Len(reports) = 1
    /\ Len(evaluated[1]) = 2
    /\ guesses = <<130, 240>>

\* C28: the five result lists always have the same length, the number of
\* items processed successfully so far, and a run_datapoint that fails
\* (in the predictor, the log error or the tier) leaves all five unchanged.
C28_ListsInStep ==
    /\ [](/\ Len(guesses) = ReturnedCalls(Len(evaluated))
          /\ Len(truths) = Len(guesses)
          /\ Len(errors) = Len(guesses)
          /\ Len(sles) = Len(guesses)
          /\ Len(colors) = Len(guesses))
    /\ [][tpc = "running" /\ tpc' = "aborted" =>
              UNCHANGED <<guesses, truths, errors, sles, colors>>]_vars

C28_Witness ==
    /\ tpc = "aborted"
    /\ tsize = 2
    /\ raised = <<"ValueError">>
    /\ Len(evaluated[1]) = 2
    /\ evaluated[1][2].outcome = "failed"
    /\ Len(colors) = 1

(***************************************************************************)
(* The predictors handed to Tester.test, and get_price.                    *)
(***************************************************************************)

\* Length of the match of [-+]?\d*\.\d+ that starts at position i of s,
\* 0 if there is none.
MatchDecimalAt(s, i) ==
    LET rest   == Drop(s, i - 1)
        a      == IF rest # <<>> /\ rest[1] \in {"-", "+"} THEN 1 ELSE 0
        d      == RunLen(Drop(rest, a), DigitSet)
        afterd == Drop(rest, a + d)
        f      == IF afterd # <<>> /\ afterd[1] = "."
                  THEN RunLen(Tail(afterd), DigitSet) ELSE 0
    IN  IF f >= 1 THEN a + d + 1 + f ELSE 0

\* Length of the match of \d+ that starts at position i of s, 0 if none.
MatchDigitsAt(s, i) == RunLen(Drop(s, i - 1), DigitSet)

\* Length of the match of the alternation at position i: the first
\* alternative that matches.
MatchAt(s, i) ==
    IF MatchDecimalAt(s, i) > 0 THEN MatchDecimalAt(s, i) ELSE MatchDigitsAt(s, i)

\* re.search(r"[-+]?\d*\.\d+|\d+", s): match.group() of the leftmost
\* match, None if there is no match.
SearchNumber(s) ==
    LET hits == {i \in 1..Len(s) : MatchAt(s, i) > 0}
    IN  IF hits = {} THEN None
        ELSE LET i == CHOOSE h \in hits : \A j \in hits : h <= j
             IN  SubSeq(s, i, i + MatchAt(s, i) - 1)

\* float(match.group()) if match else 0
NumberOrZero(s) ==
    IF SearchNumber(s) = None THEN Dec(0, 1) ELSE float(SearchNumber(s)).value

get_price(s) == NumberOrZero(Replace(Replace(s, <<"$">>, <<>>), <<",">>, <<>>))

\* max(value, 0) of the regressor predictors.
Max0(value) == IF DecLeq(Dec(0, 1), value) THEN value ELSE Dec(0, 1)

\* The functions passed to Tester.test: the number of parameters of the
\* def, and what the body returns.
Predictors ==
    {[name |-> "random_pricer",           params |-> 2, kind |-> "random"],
     [name |-> "constant_pricer",         params |-> 1, kind |-> "constant"],
     [name |-> "bow_lr_pricer",           params |-> 1, kind |-> "regressor"],
     [name |-> "word2vec_lr_pricer",      params |-> 1, kind |-> "regressor"],
     [name |-> "svr_pricer",              params |-> 1, kind |-> "regressor"],
     [name |-> "random_forest_pricer",    params |-> 1, kind |-> "regressor"],
     [name |-> "gpt_4o_mini",             params |-> 1, kind |-> "frontier"],
     [name |-> "gpt_4o_frontier",         params |-> 1, kind |-> "frontier"],
     [name |-> "claude_3_point_7_sonnet", params |-> 1, kind |-> "frontier"],
     [name |-> "gemini_frontier",         params |-> 1, kind |-> "frontier_or_zero"],
     [name |-> "gemini_2",                params |-> 1, kind |-> "frontier"],
     [name |-> "deepseek_frontier",       params |-> 1, kind |-> "frontier"]}

\* Longest reply of a frontier model.
MaxReplyLen == 4

ReplyAlphabet == {"-", ".", "1", "$", "a"}

\* The replies of the frontier models.
Replies == TextsUpTo(ReplyAlphabet, MaxReplyLen)

\* Values of regressor.predict, training_average and random.randrange.
RawValues == {Dec(-3, 1), Dec(0, 1), Dec(2505, 100)}
TrainingAverages == {Dec(2402, 10)}
RandomValues == {Dec(1, 1), Dec(999, 1)}

\* What the body of the predictor returns.
Returns(fn, reply, raw) ==
    IF fn.kind = "frontier" THEN get_price(reply)
    ELSE IF fn.kind = "frontier_or_zero"
         THEN IF reply # <<>> THEN get_price(Strip(reply)) ELSE Dec(0, 1)
    ELSE IF fn.kind = "regressor" THEN Max0(raw)
    ELSE raw

\* The replies and numbers a predictor of this kind can work from.
InputsOf(fn) ==
    IF fn.kind \in {"frontier", "frontier_or_zero"}
    THEN {[reply |-> t, raw |-> NoneObject] : t \in Replies}
    ELSE {[reply |-> None, raw |-> v] :
              v \in IF fn.kind = "regressor" THEN RawValues
                    ELSE IF fn.kind = "constant" THEN TrainingAverages
                    ELSE RandomValues}

InitPredict ==
    /\ ScrubIdle
    /\ ItemIdle
    /\ LoadIdle
    /\ CurateIdle
    /\ TesterIdle
    /\ DeployIdle
    /\ pfn = ""
    /\ preply = None
    /\ praw = NoneObject
    /\ pguess = NoneObject
    /\ pexc = NoException
    /\ ppc = "ready"

\* guess = self.predictor(datapoint["text"]) with a predictor whose def
\* does not take exactly one parameter.
CallRaises ==
    /\ ppc = "ready"
    /\ \E fn \in Predictors :
           /\ fn.params # 1
           /\ pfn' = fn.name
    /\ pexc' = "TypeError"
    /\ ppc' = "raised"
    /\ UNCHANGED <<preply, praw, pguess>>
    /\ UNCHANGED <<scrubVars, itemVars, loadVars, curateVars, testerVars, deployVars>>

\* guess = self.predictor(datapoint["text"]) returning.
CallReturns ==
    /\ ppc = "ready"
    /\ \E fn \in Predictors :
           /\ fn.params = 1
           /\ pfn' = fn.name
           /\ \E in \in InputsOf(fn) :
                  /\ preply' = in.reply
                  /\ praw' = in.raw
                  /\ pguess' = Returns(fn, in.reply, in.raw)
    /\ ppc' = "returned"
    /\ UNCHANGED pexc
    /\ UNCHANGED <<scrubVars, itemVars, loadVars, curateVars, testerVars, deployVars>>

\* log_error = math.log(truth + 1) - math.log(guess + 1): math.log raises
\* ValueError unless its argument is positive.
LogError ==
    /\ ppc = "returned"
    /\ IF pguess.num + pguess.den > 0
       THEN pexc' = pexc /\ ppc' = "scored"
       ELSE pexc' = "ValueError" /\ ppc' = "raised"
    /\ UNCHANGED <<pfn, preply, praw, pguess>>
    /\ UNCHANGED <<scrubVars, itemVars, loadVars, curateVars, testerVars, deployVars>>

NextPredict == CallRaises \/ CallReturns \/ LogError

SpecPredict == InitPredict /\ [][NextPredict]_vars

\* C27: every predictor accepts the one text argument of the Tester, the
\* guess it returns is >= 0 for every reply (0 when the reply holds no
\* number), and ln(guess + 1) is defined.
C27_PredictorContract ==
    /\ pexc = NoException
    /\ ppc \in {"returned", "scored"} =>
           /\ DecLeq(Dec(0, 1), pguess)
           /\ (preply # None /\ \A k \in DOMAIN preply : ~IsDigit(preply[k]))
                  => pguess = Dec(0, 1)

(***************************************************************************)
(* The deployed Pricer.price and the Gradio handler predict_price.         *)
(***************************************************************************)

\* result.split(sep)[1]: the text between the first and the second
\* occurrence of sep (to the end if there is no second), None if sep does
\* not occur (IndexError).
SplitSecond(s, sep) ==
    IF Find(s, sep) = 0 THEN None
    ELSE SplitHead(Drop(s, Find(s, sep) + Len(sep) - 1), sep)

\* prompt = f"{QUESTION}\n\n{description}\n\n{PREFIX}"
PricerPrompt(desc) == QUESTION \o <<"\n", "\n">> \o desc \o <<"\n", "\n">> \o PREFIX

\* Pricer.price(description), gen being the tokens generate() adds to the
\* tokens of the prompt.
PricerPrice(desc, gen) ==
    LET result   == decode(encode(PricerPrompt(desc)) \o gen)
        contents == Replace(SplitSecond(result, PREFIX), <<",">>, <<>>)
    IN  NumberOrZero(contents)

\* max_new_tokens (5 in the notebook, scaled).
MaxNewTokens == 3

\* The tokens the model can generate.
GenTokens == {<<"1">>, <<"1", "7">>, <<".">>, <<",">>}

Generations == UNION {[1..n -> GenTokens] : n \in 0..MaxNewTokens}

\* Texts of the input box.
InputTexts ==
    {<<"t", "v">>,
     <<"7", " ", "t", "v">>,
     PREFIX \o <<"7", " ", "t", "v">>}

\* Failures of the remote call: the type and the message of the exception.
RemoteErrors ==
    {[type |-> "RemoteError", message |-> <<"d", "o", "w", "n">>],
     [type |-> "TimeoutError", message |-> <<>>]}

\* Largest number of clicks of the button.
MaxClicks == 2

\* The outcome of a call that returned value.
Returned(value) == [exc |-> NoException, message |-> <<>>, value |-> value]

\* The outcome of a call that raised e.
Failed(e) == [exc |-> e.type, message |-> e.message, value |-> NoneObject]

\* f"{n:02d}" for 0 <= n < 100.
TwoDigits(n) == <<Digits[(n \div 10) + 1], Digits[(n % 10) + 1]>>

\* f"{price:.2f}": the magnitude rounded to hundredths, with the sign of
\* the price.
FormatTwoDecimals(p) ==
    LET cents == round(Dec(Abs(p.num) * 100, p.den))
        sign  == IF p.num < 0 THEN <<"-">> ELSE <<>>
    IN  sign \o str(cents \div 100) \o <<".">> \o TwoDigits(cents % 100)

\* The emoji of the two texts, as one-character stand-ins.
MONEY_WITH_WINGS == "U+1F4B8"
WARNING_SIGN == "U+26A0"
VARIATION_SELECTOR == "U+FE0F"

EstimatedPrefix ==
    <<MONEY_WITH_WINGS>> \o <<" ", "E", "s", "t", "i", "m", "a", "t", "e", "d", " ", "P", "r", "i", "c", "e", ":", " ", "$">>

ErrorPrefix ==
    <<WARNING_SIGN, VARIATION_SELECTOR>> \o <<" ", "E", "r", "r", "o", "r", ":", " ">>

\* An except clause that names one exception type only.
Handles_timeout_only(exc) == exc = "TimeoutError"

\* except Exception as e: every exception but the ones that derive from
\* BaseException only.
Handles(exc) == exc \notin {"KeyboardInterrupt", "SystemExit", "GeneratorExit"}

\* predict_price(description), given the outcome of
\* pricer.price.remote(description): what it returns, or what it raises.
predict_price(outcome) ==
    IF outcome.exc = NoException
    THEN [raised |-> NoException,
          text   |-> EstimatedPrefix \o FormatTwoDecimals(outcome.value)]
    ELSE IF Handles(outcome.exc)
         THEN [raised |-> NoException, text |-> ErrorPrefix \o outcome.message]
         ELSE [raised |-> outcome.exc, text |-> None]

InitDeploy ==
    /\ ScrubIdle
    /\ ItemIdle
    /\ LoadIdle
    /\ CurateIdle
    /\ TesterIdle
    /\ PredictIdle
    /\ input_text = None
    /\ generated = <<>>
    /\ remote = NoneObject
    /\ outputs = <<>>
    /\ clicks = 0
    /\ dpc = "waiting"

\* The button is clicked with a text in the input box.
Click ==
    /\ dpc = "waiting"
    /\ clicks < MaxClicks
    /\ input_text' \in InputTexts
    /\ clicks' = clicks + 1
    /\ dpc' = "clicked"
    /\ UNCHANGED <<generated, remote, outputs>>
    /\ UNCHANGED <<scrubVars, itemVars, loadVars, curateVars, testerVars, predictVars>>

\* pricer.price.remote(description) runs Pricer.price and returns.
RemotePrice ==
    /\ dpc = "clicked"
    /\ \E gen \in Generations :
           /\ generated' = gen
           /\ remote' = Returned(PricerPrice(input_text, gen))
    /\ dpc' = "priced"
    /\ UNCHANGED <<input_text, outputs, clicks>>
    /\ UNCHANGED <<scrubVars, itemVars, loadVars, curateVars, testerVars, predictVars>>

\* pricer.price.remote(description) raises.
RemoteFails ==
    /\ dpc = "clicked"
    /\ \E e \in RemoteErrors : remote' = Failed(e)
    /\ dpc' = "priced"
    /\ UNCHANGED <<input_text, generated, outputs, clicks>>
    /\ UNCHANGED <<scrubVars, itemVars, loadVars, curateVars, testerVars, predictVars>>

\* predict_price returns (or raises) and Gradio fills the output box.
Respond ==
    /\ dpc = "priced"
    /\ outputs' = Append(outputs, [of     |-> remote,
                                   raised |-> predict_price(remote).raised,
                                   text   |-> predict_price(remote).text])
    /\ input_text' = None
    /\ generated' = <<>>
    /\ remote' = NoneObject
    /\ dpc' = "waiting"
    /\ UNCHANGED clicks
    /\ UNCHANGED <<scrubVars, itemVars, loadVars, curateVars, testerVars, predictVars>>

NextDeploy == Click \/ RemotePrice \/ RemoteFails \/ Respond

SpecDeploy == InitDeploy /\ [][NextDeploy]_vars

\* C29: Pricer.price returns the first number of the text the model
\* generated after the prompt, 0 if that text holds no number, whatever
\* the description says.
C29_PriceFromGeneratedText ==
    (dpc = "priced" /\ remote.exc = NoException) =>
        remote.value = NumberOrZero(Replace(decode(generated), <<",">>, <<>>))

\* |a - b| <= 1/200.
WithinHalfCent(a, b) == DecLeq(DecAbs(DecSub(a, b)), Dec(1, 200))

\* C30: predict_price never raises; every click gets exactly one output:
\* "Estimated Price: $" and the price to two decimals when the remote call
\* returned, the warning text with the error message when it raised.
C30_HandlerAlwaysAnswers ==
    /\ Len(outputs) = IF dpc = "waiting" THEN clicks ELSE clicks - 1
    /\ \A k \in DOMAIN outputs :
           LET out == outputs[k]
           IN  /\ out.raised = NoException
               /\ IF out.of.exc = NoException
                  THEN /\ StartsWith(out.text, EstimatedPrefix)
                       /\ LET amount == Drop(out.text, Len(EstimatedPrefix))
                          IN  /\ Len(amount) >= 4
                              /\ amount[Len(amount) - 2] = "."
                              /\ float(amount).exc = NoException
                              /\ WithinHalfCent(float(amount).value, out.of.value)
                  ELSE out.text = ErrorPrefix \o out.of.message

C30_Witness ==
    /\ Len(outputs) = 2
    /\ outputs[1].of.exc = "RemoteError"
    /\ outputs[1].text = ErrorPrefix \o <<"d", "o", "w", "n">>
    /\ outputs[2].of = Returned(Dec(1717, 10000))
    /\ outputs[2].text = EstimatedPrefix \o <<"0", ".", "1", "7">>

====
